---- MODULE Spec2Model ----
(***************************************************************************)
(* A model of the client/monitor state machine of dwm_cpp.                 *)
(*                                                                         *)
(* src/ holds two translation units of the window manager:                 *)
(*   - src/dwm.cpp: clients and stack are intrusive linked lists           *)
(*     (Client::next / Client::snext, Monitor::clients / Monitor::stack);  *)
(*   - the dwm.cpp text that follows the property helpers in src/x.hpp     *)
(*     (from line 181 on): clients and stack are std::vector members of    *)
(*     class Monitor.                                                      *)
(* The variable build says which of the two is running ("dwm" or "x"); it  *)
(* is chosen in Init and never changes.  Code that is the same in both is  *)
(* modelled once; where they differ there is one definition per unit.      *)
(*                                                                         *)
(* Tag bitmasks (unsigned int) are modelled as sets of bit positions:      *)
(* a & b is the intersection, a | b the union, a ^ b the symmetric         *)
(* difference, ~0u the set of all 32 bit positions.                        *)
(* The master factor (float) is modelled in hundredths.                    *)
(***************************************************************************)
EXTENDS Integers, Sequences, FiniteSets, TLC

VARIABLES build,    \* "dwm": src/dwm.cpp, "x": the unit in src/x.hpp
          mons,     \* allMonitors, in list/vector order
          freed,    \* destroyed Monitor objects, as their memory was left
          cl,       \* the Client objects, by window handle
          selmon,   \* index into mons of the selected monitor
          screen,   \* screenWidth, screenHeight; the X server's screens
          active,   \* _NET_ACTIVE_WINDOW on the root (NULL: deleted)
          clist,    \* _NET_CLIENT_LIST on the root
          motionmon,\* the static Monitor* of motionnotify (vector unit)
          pc,       \* "run", "drag" (the loop of a mouse move or resize),
                    \* "crashed"
          drag,     \* the locals of Client::moveWithMouse / resizeWithMouse
          steps,    \* events handled so far
          hist      \* the last operation, its argument and what it found

vars == <<build, mons, freed, cl, selmon, screen, active, clist, motionmon,
          pc, drag, steps, hist>>

-----------------------------------------------------------------------------
(* Bounds of the model *)

MaxClients == 2       \* window handles 1..MaxClients
MaxSteps == 4         \* events handled in one run
MaxTiled == 3         \* windows mapped where tile is examined

(* Program constants *)

NumTags == 9          \* tags.size()
UIntBits == 32        \* width of unsigned int
borderpx == 1
gappx == 5
nmaster == 1
mfact == 55           \* 0.55, in hundredths
resizehints == 1
showbar == 1
topbar == 1
lockfullscreen == 1
snap == 32
barHeight == 20       \* drw->getPrimaryFontHeight() + 2, font height 18

NULL == 0

Windows == 1..MaxClients

TAGMASK == 0..(NumTags - 1)
AllBits == 0..(UIntBits - 1)

Xor(a, b) == (a \ b) \cup (b \ a)

Max(a, b) == IF a >= b THEN a ELSE b
Min(a, b) == IF a <= b THEN a ELSE b
Abs(a) == IF a >= 0 THEN a ELSE -a

(* C++ integer division and remainder truncate toward zero. *)
CDiv(a, b) == IF (a >= 0) = (b > 0) \/ a = 0
              THEN Abs(a) \div Abs(b)
              ELSE -(Abs(a) \div Abs(b))
CMod(a, b) == a - b * CDiv(a, b)

Rect(x, y, w, h) == [x |-> x, y |-> y, w |-> w, h |-> h]

Range(s) == {s[i] : i \in 1..Len(s)}

Remove(s, e) == SelectSeq(s, LAMBDA v : v # e)

IsPerm(s, t) == /\ Len(s) = Len(t)
                /\ Range(s) = Range(t)
                /\ Cardinality(Range(s)) = Len(s)

-----------------------------------------------------------------------------
(* The world the handlers work on: a record of the program's variables.    *)
(* Every C++ function that changes state is an operator from world to      *)
(* world, so that a handler is the composition of the calls it makes.      *)

World == [mons |-> mons, freed |-> freed, cl |-> cl, selmon |-> selmon,
          screen |-> screen, active |-> active, clist |-> clist,
          motionmon |-> motionmon, crashed |-> FALSE]

(* Layouts: config.def.hpp's table, and the empty layout cleanup installs. *)
layouts == <<"tile", "floating", "monocle">>

HasArrange(l) == l \in {"tile", "monocle"}

(* A layout symbol is a pair: the text, and the number monocle prints     *)
(* into "[%d]" (0 for the symbols of the table).                          *)
LayoutSymbol(l) == CASE l = "tile" -> <<"[]=", 0>>
                     [] l = "floating" -> <<"><>", 0>>
                     [] l = "monocle" -> <<"[M]", 0>>
                     [] OTHER -> <<"", 0>>

(* The Monitor a pointer refers to.  A pointer to a destroyed Monitor      *)
(* reads the memory as the destructor left it.                             *)
MonAt(W, i) == IF i \in 1..Len(W.mons) THEN W.mons[i] ELSE W.freed[i]

Dangling(W, c) == W.cl[c].mon \notin 1..Len(W.mons)

MonOf(W, c) == MonAt(W, W.cl[c].mon)

getActiveTags(M) == M.tagset[M.seltags + 1]

getActiveLayout(M) == M.layout[M.sellt + 1]

isVisible(W, c) == (W.cl[c].tags \cap getActiveTags(MonOf(W, c))) # {}

getOuterWidth(C) == C.size.w + 2 * C.bw

getOuterHeight(C) == C.size.h + 2 * C.bw

SetClient(W, c, C) == [W EXCEPT !.cl[c] = C]

SetMon(W, i, M) == [W EXCEPT !.mons[i] = M]

(* A member function called on, or a write through a pointer to, a         *)
(* destroyed Monitor faults; otherwise the call has the result given.      *)
OnMon(W, m, result) ==
    IF m \in 1..Len(W.mons) THEN result ELSE [W EXCEPT !.crashed = TRUE]

-----------------------------------------------------------------------------
(* Size hints.  An XSizeHints value is a record of the flags that are set  *)
(* and the values; aspect ratios are pairs <<x, y>>.  A float ratio u/v is *)
(* kept as the pair <<u, v>> and compared exactly.                         *)

NoHints == [flags |-> {"PSize"}, base |-> <<0, 0>>, min |-> <<0, 0>>,
            max |-> <<0, 0>>, inc |-> <<0, 0>>,
            min_aspect |-> <<0, 1>>, max_aspect |-> <<0, 1>>]

updateSizeHintsFromX(C, size) ==
    LET base == IF "PBaseSize" \in size.flags THEN size.base
                ELSE IF "PMinSize" \in size.flags THEN size.min
                ELSE <<0, 0>>
        inc  == IF "PResizeInc" \in size.flags THEN size.inc ELSE <<0, 0>>
        max  == IF "PMaxSize" \in size.flags THEN size.max ELSE <<0, 0>>
        min  == IF "PMinSize" \in size.flags THEN size.min
                ELSE IF "PBaseSize" \in size.flags THEN size.base
                ELSE <<0, 0>>
        asp  == "PAspect" \in size.flags
    IN  [C EXCEPT !.basew = base[1], !.baseh = base[2],
                  !.incw = inc[1], !.inch = inc[2],
                  !.maxw = max[1], !.maxh = max[2],
                  !.minw = min[1], !.minh = min[2],
                  !.mina = IF asp THEN <<size.min_aspect[2], size.min_aspect[1]>>
                           ELSE <<0, 1>>,
                  !.maxa = IF asp THEN <<size.max_aspect[1], size.max_aspect[2]>>
                           ELSE <<0, 1>>,
                  !.isFixed = /\ max[1] # 0 /\ max[2] # 0
                              /\ max[1] = min[1] /\ max[2] = min[2]]

(* a[1]/a[2] < n/d for a[2] > 0, as the float comparison decides it:       *)
(* n/0 is +infinity, -infinity or NaN (no comparison with NaN is true).    *)
RatLess(a, n, d) ==
    IF d > 0 THEN a[1] * d < n * a[2]
    ELSE IF d < 0 THEN a[1] * d > n * a[2]
    ELSE n > 0

(* (int)(v * a[1]/a[2] + 0.5f): conversion truncates toward zero.          *)
ScaleRound(v, a) == CDiv(2 * v * a[1] + a[2], 2 * a[2])

resizeXClient(C, newSize) == [C EXCEPT !.oldSize = C.size, !.size = newSize]

(* The clamp without its second test: a client wholly off the near edge   *)
(* stays where it was asked to be.                                         *)
clampPosition_farEdgeOnly(pos, extent, bw, outer, lo, len, limit, interact) ==
    IF interact
    THEN (IF pos > limit THEN limit - outer ELSE pos)
    ELSE (IF pos >= lo + len THEN lo + len - outer ELSE pos)

(* Client::resize, the clamp of one coordinate: pos is x or y, extent the  *)
(* requested width or height, outer the client's present outer size,       *)
(* (lo, len) the monitor's window area and limit the screen's size along   *)
(* that axis.                                                              *)
clampPosition(pos, extent, bw, outer, lo, len, limit, interact) ==
    LET a == IF interact
             THEN (IF pos > limit THEN limit - outer ELSE pos)
             ELSE (IF pos >= lo + len THEN lo + len - outer ELSE pos)
    IN  IF interact
        THEN (IF a + extent + 2 * bw < 0 THEN 0 ELSE a)
        ELSE (IF a + extent + 2 * bw <= lo THEN lo ELSE a)

(* Client::resize, the aspect limits on <<w, h>>.                          *)
applyAspect(C, w, h) ==
    IF C.mina[1] > 0 /\ C.maxa[1] > 0
    THEN (IF RatLess(C.maxa, w, h) THEN <<ScaleRound(h, C.maxa), h>>
          ELSE IF RatLess(C.mina, h, w) THEN <<w, ScaleRound(w, C.mina)>>
          ELSE <<w, h>>)
    ELSE <<w, h>>

(* Client::resize, one dimension after the aspect limits: the base size is *)
(* removed for the increment calculation, the increment applied, the base  *)
(* size restored and the minimum and maximum enforced.                     *)
applyIncrement(v, inc) == IF inc # 0 THEN v - CMod(v, inc) ELSE v

applyMaximum(v, max) == IF max # 0 THEN Min(v, max) ELSE v

applyHints(v, isBaseSizeMin, base, inc, min, max) ==
    applyMaximum(
        Max(applyIncrement(IF isBaseSizeMin THEN v - base ELSE v, inc) + base,
            min),
        max)

(* Client::resize, the size: w and h are at least barHeight already.       *)
hintedSize(C, M, w, h) ==
    IF resizehints # 0 \/ C.isFloating \/ ~HasArrange(getActiveLayout(M))
    THEN LET isBaseSizeMin == C.basew = C.minw /\ C.baseh = C.minh
             a == applyAspect(C, IF ~isBaseSizeMin THEN w - C.basew ELSE w,
                                 IF ~isBaseSizeMin THEN h - C.baseh ELSE h)
         IN  <<applyHints(a[1], isBaseSizeMin, C.basew, C.incw, C.minw, C.maxw),
               applyHints(a[2], isBaseSizeMin, C.baseh, C.inch, C.minh, C.maxh)>>
    ELSE <<w, h>>

resizeTo(C, x, y, size) ==
    IF Rect(x, y, size[1], size[2]) # C.size
    THEN resizeXClient(C, Rect(x, y, size[1], size[2]))
    ELSE C

(* Client::resize on client C whose monitor is M.                           *)
resizeClient(C, M, scr, x, y, width, height, interact) ==
    resizeTo(C,
             clampPosition(x, Max(1, width), C.bw, getOuterWidth(C),
                           M.wRect.x, M.wRect.w, scr.w, interact),
             clampPosition(y, Max(1, height), C.bw, getOuterHeight(C),
                           M.wRect.y, M.wRect.h, scr.h, interact),
             hintedSize(C, M, Max(Max(1, width), barHeight),
                              Max(Max(1, height), barHeight)))

resize(W, c, x, y, width, height, interact) ==
    SetClient(W, c, resizeClient(W.cl[c], MonOf(W, c), W.screen,
                                 x, y, width, height, interact))

-----------------------------------------------------------------------------
(* Layout functions.  m is an index into W.mons.                           *)

(* The clients nexttiled walks over / getTiledClients yields, in order.    *)
getTiledClients(W, m) ==
    SelectSeq(W.mons[m].clients,
              LAMBDA c : ~W.cl[c].isFloating /\ isVisible(W, c))

RECURSIVE tileLoop(_, _, _, _, _, _, _, _)

(* tile's loop body after the resize: the offset of the column the client  *)
(* went to advances by the client's outer height and the gap when that     *)
(* stays inside the window area.                                           *)
tileAdvance(W, m, rest, i, n, mw, my, ty) ==
    LET M  == W.mons[m]
        oh == getOuterHeight(W.cl[Head(rest)]) + M.gappx
    IN  IF i < M.nmaster
        THEN tileLoop(W, m, Tail(rest), i + 1, n, mw,
                      IF my + oh < M.wRect.h THEN my + oh ELSE my, ty)
        ELSE tileLoop(W, m, Tail(rest), i + 1, n, mw, my,
                      IF ty + oh < M.wRect.h THEN ty + oh ELSE ty)

tileLoop(W, m, rest, i, n, mw, my, ty) ==
    IF rest = <<>> THEN W
    ELSE LET M  == W.mons[m]
             c  == Head(rest)
             bw == W.cl[c].bw
         IN  tileAdvance(
                 IF i < M.nmaster
                 THEN resize(W, c, M.wRect.x + M.gappx, M.wRect.y + my,
                             mw - 2 * bw - M.gappx,
                             CDiv(M.wRect.h - my, Min(n, M.nmaster) - i)
                                 - M.gappx - 2 * bw,
                             FALSE)
                 ELSE resize(W, c, M.wRect.x + mw + M.gappx, M.wRect.y + ty,
                             M.wRect.w - mw - 2 * bw - 2 * M.gappx,
                             CDiv(M.wRect.h - ty, n - i) - M.gappx - 2 * bw,
                             FALSE),
                 m, rest, i, n, mw, my, ty)

(* tile with both columns starting at the top edge, no gap above them.     *)
tile_noTopGap(W, m) ==
    IF getTiledClients(W, m) = <<>> THEN W
    ELSE tileLoop(W, m, getTiledClients(W, m), 0,
                  Len(getTiledClients(W, m)),
                  CDiv(W.mons[m].wRect.w * W.mons[m].mfact, 100), 0, 0)

tile(W, m) ==
    LET M  == W.mons[m]
        tl == getTiledClients(W, m)
        n  == Len(tl)
        mw == IF n > M.nmaster
              THEN (IF M.nmaster # 0 THEN CDiv(M.wRect.w * M.mfact, 100) ELSE 0)
              ELSE M.wRect.w - M.gappx
    IN  IF n = 0 THEN W
        ELSE tileLoop(W, m, tl, 0, n, mw, M.gappx, M.gappx)

RECURSIVE monocleLoop(_, _, _)
monocleLoop(W, m, rest) ==
    IF rest = <<>> THEN W
    ELSE LET M == W.mons[m]
             c == Head(rest)
             bw == W.cl[c].bw
         IN  monocleLoop(resize(W, c, M.wRect.x, M.wRect.y,
                                M.wRect.w - 2 * bw, M.wRect.h - 2 * bw, FALSE),
                         m, Tail(rest))

(* monocle printing the number of the clients it resizes.                  *)
monocle_countsTiled(W, m) ==
    LET n  == Len(getTiledClients(W, m))
        W1 == IF n > 0 THEN [W EXCEPT !.mons[m].ltsymbol = <<"[%d]", n>>] ELSE W
    IN  monocleLoop(W1, m, getTiledClients(W1, m))

monocle(W, m) ==
    LET n  == Len(SelectSeq(W.mons[m].clients, LAMBDA c : isVisible(W, c)))
        W1 == IF n > 0 THEN [W EXCEPT !.mons[m].ltsymbol = <<"[%d]", n>>] ELSE W
    IN  monocleLoop(W1, m, getTiledClients(W1, m))

-----------------------------------------------------------------------------
(* Monitors.                                                               *)

createmon(num) ==
    [ltsymbol |-> LayoutSymbol(layouts[1]), mfact |-> mfact,
     nmaster |-> nmaster, num |-> num, by |-> 0,
     sRect |-> Rect(0, 0, 0, 0), wRect |-> Rect(0, 0, 0, 0),
     gappx |-> gappx, seltags |-> 0, sellt |-> 0,
     tagset |-> <<{0}, {0}>>, showbar |-> showbar, topbar |-> topbar,
     clients |-> <<>>, sel |-> NULL, stack |-> <<>>,
     layout |-> <<layouts[1], layouts[(1 % Len(layouts)) + 1]>>]

updatebarpos(M) ==
    LET M1 == [M EXCEPT !.wRect.y = M.sRect.y, !.wRect.h = M.sRect.h]
    IN  IF M1.showbar # 0
        THEN [M1 EXCEPT !.wRect.h = M1.wRect.h - barHeight,
                        !.by = IF M1.topbar # 0 THEN M1.wRect.y
                               ELSE M1.wRect.y + (M1.wRect.h - barHeight),
                        !.wRect.y = IF M1.topbar # 0 THEN M1.wRect.y + barHeight
                                    ELSE M1.wRect.y]
        ELSE [M1 EXCEPT !.by = -barHeight]

(* The first visible client of a stack, or NULL.                           *)
FirstVisible(W, stack) ==
    LET vis == SelectSeq(stack, LAMBDA c : isVisible(W, c))
    IN  IF vis = <<>> THEN NULL ELSE Head(vis)

(* showhide over one stack / Monitor::hideClientsIfInvisible: a visible,  *)
(* not fullscreen client that floats or whose monitor has no arrange       *)
(* function is resized to its own rectangle (which applies the hints and   *)
(* the clamps); moving hidden windows off screen changes no program state. *)
RECURSIVE showhideLoop(_, _)
showhideLoop(W, rest) ==
    IF rest = <<>> THEN W
    ELSE LET c == Head(rest)
             C == W.cl[c]
             W1 == IF /\ isVisible(W, c)
                      /\ (~HasArrange(getActiveLayout(MonOf(W, c))) \/ C.isFloating)
                      /\ ~C.isFullscreen
                   THEN resize(W, c, C.size.x, C.size.y, C.size.w, C.size.h, FALSE)
                   ELSE W
         IN  showhideLoop(W1, Tail(rest))

showhide(W, m) == showhideLoop(W, W.mons[m].stack)

arrangemon(W, m) ==
    LET l  == getActiveLayout(W.mons[m])
        W1 == [W EXCEPT !.mons[m].ltsymbol = LayoutSymbol(l)]
    IN  CASE l = "tile" -> tile(W1, m)
          [] l = "monocle" -> monocle(W1, m)
          [] OTHER -> W1

(* arrange(m) for one monitor, and Monitor::arrangeClients.  restack only  *)
(* changes the X stacking order, which is not part of the model.           *)
arrange(W, m) == arrangemon(showhide(W, m), m)

RECURSIVE showhideAll(_, _)
showhideAll(W, m) ==
    IF m > Len(W.mons) THEN W ELSE showhideAll(showhide(W, m), m + 1)

RECURSIVE arrangemonAll(_, _)
arrangemonAll(W, m) ==
    IF m > Len(W.mons) THEN W ELSE arrangemonAll(arrangemon(W, m), m + 1)

(* arrange(NULL): every stack is shown/hidden, then every monitor laid out *)
arrangeAll(W) == arrangemonAll(showhideAll(W, 1), 1)

(* arrangeAllMonitors of the vector unit: monitor by monitor.              *)
RECURSIVE arrangeAllMonitorsFrom(_, _)
arrangeAllMonitorsFrom(W, m) ==
    IF m > Len(W.mons) THEN W
    ELSE arrangeAllMonitorsFrom(arrange(showhide(W, m), m), m + 1)

arrangeAllMonitors(W) == arrangeAllMonitorsFrom(W, 1)

-----------------------------------------------------------------------------
(* Client list and focus stack.                                            *)

attach(W, c) ==
    LET m == W.cl[c].mon
    IN  [W EXCEPT !.mons[m].clients = <<c>> \o @]

(* attachstack without its push: what C1 rules out.                        *)
attachstack_dropped(W, c) == W

attachstack(W, c) ==
    LET m == W.cl[c].mon
    IN  [W EXCEPT !.mons[m].stack = <<c>> \o @]

detach(W, c) ==
    LET m == W.cl[c].mon
    IN  [W EXCEPT !.mons[m].clients = Remove(@, c)]

detachstack(W, c) ==
    LET m  == W.cl[c].mon
        W1 == [W EXCEPT !.mons[m].stack = Remove(@, c)]
    IN  IF W1.mons[m].sel = c
        THEN [W1 EXCEPT !.mons[m].sel = FirstVisible(W1, W1.mons[m].stack)]
        ELSE W1

(* Monitor::attach(client) of the vector unit: front of both vectors, and  *)
(* the back-reference is set.                                              *)
Monitor_attach(W, m, c) ==
    [W EXCEPT !.mons[m].clients = <<c>> \o @,
              !.mons[m].stack = <<c>> \o @,
              !.cl[c].mon = m]

(* Monitor::detach(client) of the vector unit.  Callers check Listed: for  *)
(* a client that is not in the vector, the end iterator is dereferenced    *)
(* and erased.                                                             *)
Listed(W, m, c) ==
    /\ m \in 1..Len(W.mons)
    /\ c \in Range(W.mons[m].clients)
    /\ c \in Range(W.mons[m].stack)

Monitor_detach(W, m, c) ==
    LET W1 == [W EXCEPT !.mons[m].clients = Remove(@, c),
                        !.mons[m].stack = Remove(@, c)]
    IN  IF W1.mons[m].sel = c
        THEN [W1 EXCEPT !.mons[m].sel = FirstVisible(W1, W1.mons[m].stack)]
        ELSE W1

(* Client::setFocus: the active-window property follows unless the client  *)
(* never takes input focus.                                                *)
setFocus(W, c) ==
    IF ~W.cl[c].neverFocus THEN [W EXCEPT !.active = c] ELSE W

(* unfocus(c, setfocus): borders and button grabs are not modelled.        *)
unfocus(W, c, setfocus) ==
    IF c = NULL THEN W
    ELSE IF setfocus THEN [W EXCEPT !.active = NULL] ELSE W

(* focus(c) that also brings the client to the front of the client list.   *)
focusVisible_popsClient(W, c1) ==
    LET old == W.mons[W.selmon].sel
        W1  == IF old # NULL /\ old # c1 THEN unfocus(W, old, FALSE) ELSE W
    IN  IF c1 # NULL
        THEN [setFocus(attachstack(detachstack(attach(detach(
                           [W1 EXCEPT !.selmon = W.cl[c1].mon,
                                      !.cl[c1].isUrgent = FALSE], c1), c1), c1),
                           c1), c1)
                 EXCEPT !.mons[W.cl[c1].mon].sel = c1]
        ELSE [W1 EXCEPT !.active = NULL, !.mons[W.selmon].sel = NULL]

(* focus(c) that leaves the stack in the order it found it.                 *)
focusVisible_noPromotion(W, c1) ==
    LET old == W.mons[W.selmon].sel
        W1  == IF old # NULL /\ old # c1 THEN unfocus(W, old, FALSE) ELSE W
    IN  IF c1 # NULL
        THEN [setFocus([W1 EXCEPT !.selmon = W.cl[c1].mon,
                                  !.cl[c1].isUrgent = FALSE], c1)
                 EXCEPT !.mons[W.cl[c1].mon].sel = c1]
        ELSE [W1 EXCEPT !.active = NULL, !.mons[W.selmon].sel = NULL]

(* focus(c) of src/dwm.cpp.                                                *)
focusVisible(W, c1) ==
    LET old == W.mons[W.selmon].sel
        W1  == IF old # NULL /\ old # c1 THEN unfocus(W, old, FALSE) ELSE W
    IN  IF c1 # NULL
        THEN [setFocus(attachstack(detachstack(
                           [W1 EXCEPT !.selmon = W.cl[c1].mon,
                                      !.cl[c1].isUrgent = FALSE], c1), c1), c1)
                 EXCEPT !.mons[W.cl[c1].mon].sel = c1]
        ELSE [W1 EXCEPT !.active = NULL, !.mons[W.selmon].sel = NULL]

focus(W, c) ==
    focusVisible(W, IF c = NULL \/ ~isVisible(W, c)
                    THEN FirstVisible(W, W.mons[W.selmon].stack) ELSE c)

(* Monitor::focus(client) of the vector unit, called on monitor m.  When   *)
(* the client is not visible and no visible client is found, the client    *)
(* passed in stays the one that is focused.  shuffleToFront on a client    *)
(* that is not in the stack dereferences the end iterator.                 *)
Monitor_focusOn(W, m, c1) ==
    LET old == W.mons[m].sel
        W1  == IF old # NULL /\ old # c1
               THEN unfocus([W EXCEPT !.selmon = m], old, FALSE)
               ELSE [W EXCEPT !.selmon = m]
    IN  IF c1 # NULL /\ c1 \notin Range(W.mons[m].stack)
        THEN [W EXCEPT !.crashed = TRUE]
        ELSE IF c1 # NULL
        THEN [setFocus([W1 EXCEPT !.cl[c1].isUrgent = FALSE,
                                  !.mons[m].stack = <<c1>> \o Remove(@, c1)], c1)
                 EXCEPT !.mons[m].sel = c1]
        ELSE [W1 EXCEPT !.active = NULL, !.mons[m].sel = NULL]

firstVisibleOr(fv, c) == IF fv # NULL THEN fv ELSE c

Monitor_focus(W, m, c) ==
    Monitor_focusOn(W, m,
        IF c = NULL \/ ~isVisible(W, c)
        THEN firstVisibleOr(FirstVisible(W, W.mons[m].stack), c) ELSE c)

-----------------------------------------------------------------------------
(* Fullscreen and floating.                                                *)

(* The first branch of Client::setFullscreen, on client C of monitor M.    *)
(* In src/dwm.cpp the floating flag is saved after it has been set; in the *)
(* vector unit it is saved before.                                         *)
enterFullscreen(C, M) ==
    LET saved == IF build = "dwm" THEN TRUE ELSE C.isFloating
        C1 == [C EXCEPT !.isFullscreen = TRUE, !.isFloating = TRUE,
                        !.wasPreviouslyFloating = saved,
                        !.oldbw = C.bw, !.bw = 0]
    IN  resizeXClient(C1, M.sRect)

(* Leaving fullscreen without the saved border width put back.            *)
leaveFullscreen_keepBorder(C) ==
    resizeXClient([C EXCEPT !.isFullscreen = FALSE,
                            !.isFloating = C.wasPreviouslyFloating,
                            !.size = C.oldSize], C.oldSize)

(* The second branch, before the monitor is re-arranged.                   *)
leaveFullscreen(C) ==
    LET C1 == [C EXCEPT !.isFullscreen = FALSE,
                        !.isFloating = C.wasPreviouslyFloating,
                        !.size = C.oldSize, !.bw = C.oldbw]
    IN  resizeXClient(C1, C1.size)

setFullscreen(W, c, fullscreen) ==
    LET C == W.cl[c]
    IN  IF fullscreen /\ ~C.isFullscreen
        THEN SetClient(W, c, enterFullscreen(C, MonOf(W, c)))
        ELSE IF ~fullscreen /\ C.isFullscreen
        THEN OnMon(W, C.mon, arrange(SetClient(W, c, leaveFullscreen(C)), C.mon))
        ELSE W

toggleFloating(W, c) ==
    LET C == W.cl[c]
    IN  IF C.isFullscreen THEN W
        ELSE LET W1 == [W EXCEPT !.cl[c].isFloating = ~C.isFloating \/ C.isFixed]
             IN  IF W1.cl[c].isFloating
                 THEN resize(W1, c, C.size.x, C.size.y, C.size.w, C.size.h, FALSE)
                 ELSE W1

-----------------------------------------------------------------------------
(* Client construction.  in is what the X server answers for the window:   *)
(*   rect, bw      XWindowAttributes                                       *)
(*   trans         WM_TRANSIENT_FOR: NULL (None) or a window handle        *)
(*   class         the class hint                                          *)
(*   size          WM_NORMAL_HINTS                                         *)
(*   fullscreen    _NET_WM_STATE is _NET_WM_STATE_FULLSCREEN               *)
(*   dialog        _NET_WM_WINDOW_TYPE is the dialog type                  *)
(*   wmhints       "none" (no WM_HINTS), "input", "noinput"                *)
(*   heap          what the members read before they are written hold      *)

(* config.def.hpp rules: Gimp floats; Firefox goes to tag 9.               *)
rules == <<[class |-> "Gimp", tags |-> {}, isfloating |-> TRUE],
           [class |-> "Firefox", tags |-> {8}, isfloating |-> FALSE]>>

RECURSIVE applyRulesFrom(_, _, _)
applyRulesFrom(C, class, i) ==
    IF i > Len(rules) THEN C
    ELSE IF rules[i].class = class
    THEN applyRulesFrom([C EXCEPT !.isFloating = rules[i].isfloating,
                                  !.tags = @ \cup rules[i].tags], class, i + 1)
    ELSE applyRulesFrom(C, class, i + 1)

(* No rule names a monitor number that exists (all say -1), so fMonitor    *)
(* stays what it was.                                                      *)
applyCustomRules(W, C, class) ==
    LET C1 == applyRulesFrom([C EXCEPT !.isFloating = FALSE, !.tags = {}],
                             class, 1)
    IN  [C1 EXCEPT !.tags = IF (C1.tags \cap TAGMASK) # {}
                            THEN C1.tags \cap TAGMASK
                            ELSE getActiveTags(MonAt(W, C1.mon))]

updateWindowTypeFromX(C, M, in) ==
    LET C1 == IF in.fullscreen /\ ~C.isFullscreen
              THEN enterFullscreen(C, M) ELSE C
    IN  IF in.dialog THEN [C1 EXCEPT !.isFloating = TRUE] ELSE C1

updateWMHintsTypeFromX(C, in) ==
    IF in.wmhints = "none" THEN C
    ELSE [C EXCEPT !.isUrgent = FALSE,
                   !.neverFocus = (in.wmhints = "noinput")]

(* The constructor up to the rules: the members as allocated, and the      *)
(* monitor and tags of the transient parent or of the rules.               *)
initClient(W, in) ==
    LET C0 == [mon |-> NULL, tags |-> {},
               isFixed |-> in.heap, isFloating |-> in.heap,
               isUrgent |-> in.heap, neverFocus |-> in.heap,
               isFullscreen |-> in.heap, wasPreviouslyFloating |-> in.heap,
               size |-> in.rect, oldSize |-> in.rect,
               bw |-> borderpx, oldbw |-> in.bw,
               basew |-> 0, baseh |-> 0, incw |-> 0, inch |-> 0,
               maxw |-> 0, maxh |-> 0, minw |-> 0, minh |-> 0,
               mina |-> <<0, 1>>, maxa |-> <<0, 1>>]
    IN  IF in.trans \in DOMAIN W.cl
        THEN [C0 EXCEPT !.mon = W.cl[in.trans].mon,
                        !.tags = W.cl[in.trans].tags]
        ELSE applyCustomRules(W, [C0 EXCEPT !.mon = W.selmon], in.class)

(* The constructor's placement of the window inside its monitor M.         *)
placeClient(C, M) ==
    LET x1 == IF C.size.x + getOuterWidth(C) > M.sRect.x + M.sRect.w
              THEN M.sRect.x + M.sRect.w - getOuterWidth(C) ELSE C.size.x
        y1 == IF C.size.y + getOuterHeight(C) > M.sRect.y + M.sRect.h
              THEN M.sRect.y + M.sRect.h - getOuterHeight(C) ELSE C.size.y
        x2 == Max(x1, M.sRect.x)
        mid == x2 + CDiv(C.size.w, 2)
        y2 == Max(y1, IF /\ M.by = M.sRect.y
                         /\ mid >= M.wRect.x
                         /\ mid < M.wRect.x + M.wRect.w
                      THEN barHeight ELSE M.sRect.y)
    IN  [C EXCEPT !.size.x = x2, !.size.y = y2]

(* The constructor's last statements: a client that does not float yet     *)
(* floats when it is transient or of fixed size.                           *)
floatIfTransientOrFixed(C, in) ==
    IF ~C.isFloating
    THEN [C EXCEPT !.isFloating = in.trans # NULL \/ C.isFixed,
                   !.wasPreviouslyFloating = in.trans # NULL \/ C.isFixed]
    ELSE C

constructOn(C, M, in) ==
    floatIfTransientOrFixed(
        updateWMHintsTypeFromX(
            updateSizeHintsFromX(
                updateWindowTypeFromX(placeClient(C, M), M, in),
                in.size),
            in),
        in)

constructFrom(W, C, in) == constructOn(C, MonAt(W, C.mon), in)

NewClient(W, in) == constructFrom(W, initClient(W, in), in)

-----------------------------------------------------------------------------
(* Handlers, as functions from world to world.  Where the two units have   *)
(* the same statements under different names there is one definition.      *)

(* arrange(selmon) / selmon->arrangeClients()                              *)
arrangeSel(W) == arrange(W, W.selmon)

(* focus(NULL) / selmon->focus()                                           *)
focusNull(W) ==
    IF build = "dwm" THEN focus(W, NULL) ELSE Monitor_focus(W, W.selmon, NULL)

(* manage(w, wa) / manageClient(window, wa)                                *)
unfocusSelected(W) == unfocus(W, W.mons[W.selmon].sel, FALSE)

manageClient(W, w, C) ==
    LET m  == C.mon
        W0 == [W EXCEPT !.cl = (w :> C) @@ W.cl, !.clist = @ \o <<w>>]
        W1 == IF build = "dwm" THEN attachstack(attach(W0, w), w)
              ELSE Monitor_attach(W0, m, w)
        W2 == IF m = W.selmon THEN unfocusSelected(W1) ELSE W1
    IN  OnMon(W, m, focusNull(arrange([W2 EXCEPT !.mons[m].sel = w], m)))

manage(W, w, in) == manageClient(W, w, NewClient(W, in))

(* wintoclient(w): the client with window w in some monitor's client list. *)
wintoclient(W, w) ==
    IF \E m \in 1..Len(W.mons) : w \in Range(W.mons[m].clients) THEN w ELSE NULL

(* maprequest without the look-up of the window among the clients.         *)
maprequest_unchecked(W, w, in) == manage(W, w, in)

(* maprequest for a window that is not override-redirect.                  *)
maprequest(W, w, in) ==
    IF wintoclient(W, w) # NULL THEN W ELSE manage(W, w, in)

(* updateclientlist / updateAllXClientLists: the property is rebuilt from  *)
(* the client lists, monitor by monitor.                                   *)
RECURSIVE ClientsFrom(_, _)
ClientsFrom(W, m) ==
    IF m > Len(W.mons) THEN <<>>
    ELSE W.mons[m].clients \o ClientsFrom(W, m + 1)

updateclientlist(W) == [W EXCEPT !.clist = ClientsFrom(W, 1)]

Forget(W, c) == [W EXCEPT !.cl = [d \in (DOMAIN W.cl) \ {c} |-> W.cl[d]]]

(* unmanage(c, destroyed) / Monitor::unmanage(ptr, xResourceDestroyed)     *)
unmanage(W, c) ==
    LET m  == W.cl[c].mon
        W1 == IF build = "dwm" THEN detachstack(detach(W, c), c)
              ELSE Monitor_detach(W, m, c)
        W2 == Forget(W1, c)
    IN  IF build = "x" /\ ~Listed(W, m, c) THEN [W EXCEPT !.crashed = TRUE]
        ELSE arrange(updateclientlist(focusNull(W2)), m)

(* sendmon(c, m) / sendClientToMonitor(client, monitor)                    *)
(* arrange(NULL) / arrangeAllMonitors()                                    *)
arrangeEvery(W) ==
    IF build = "dwm" THEN arrangeAll(W) ELSE arrangeAllMonitors(W)

(* The assignments without the one to the tags.                            *)
retag_keepTags(W, c, m) == [W EXCEPT !.cl[c].mon = m]

(* sendmon's assignments between detach and attach.                        *)
retag(W, c, m) ==
    [W EXCEPT !.cl[c].mon = m, !.cl[c].tags = getActiveTags(W.mons[m])]

sendmon(W, c, m) ==
    IF W.cl[c].mon = m THEN W
    ELSE IF build = "x" /\ ~Listed(W, W.cl[c].mon, c)
    THEN [W EXCEPT !.crashed = TRUE]
    ELSE arrangeEvery(focusNull(
             IF build = "dwm"
             THEN attachstack(attach(
                      retag(detachstack(detach(unfocus(W, c, TRUE), c), c), c, m),
                      c), c)
             ELSE retag(Monitor_attach(
                            Monitor_detach(unfocus(W, c, TRUE), W.cl[c].mon, c),
                            m, c), c, m)))

dirtomon(W, dir) ==
    LET n == Len(W.mons)
    IN  IF dir > 0 THEN (IF W.selmon = n THEN 1 ELSE W.selmon + 1)
        ELSE (IF W.selmon = 1 THEN n ELSE W.selmon - 1)

(* tag without the mask applied to the argument.                           *)
tag_unmasked(W, ui) ==
    IF W.mons[W.selmon].sel # NULL /\ ui # {}
    THEN arrangeSel(focusNull([W EXCEPT !.cl[W.mons[W.selmon].sel].tags = ui]))
    ELSE W

tag(W, ui) ==
    LET sel == W.mons[W.selmon].sel
    IN  IF sel # NULL /\ (ui \cap TAGMASK) # {}
        THEN arrangeSel(focusNull([W EXCEPT !.cl[sel].tags = ui \cap TAGMASK]))
        ELSE W

toggletag(W, ui) ==
    LET sel == W.mons[W.selmon].sel
    IN  IF sel = NULL THEN W
        ELSE LET newtags == Xor(W.cl[sel].tags, ui \cap TAGMASK)
             IN  IF newtags # {}
                 THEN arrangeSel(focusNull([W EXCEPT !.cl[sel].tags = newtags]))
                 ELSE W

(* toggleview without the test of the new tag set.                         *)
toggleview_unguarded(W, ui) ==
    arrangeSel(focusNull([W EXCEPT
        !.mons[W.selmon].tagset[W.mons[W.selmon].seltags + 1] =
            Xor(getActiveTags(W.mons[W.selmon]), ui \cap TAGMASK)]))

toggleview(W, ui) ==
    LET M == W.mons[W.selmon]
        newtagset == Xor(getActiveTags(M), ui \cap TAGMASK)
    IN  IF newtagset # {}
        THEN arrangeSel(focusNull([W EXCEPT
                 !.mons[W.selmon].tagset[M.seltags + 1] = newtagset]))
        ELSE W

(* view without the call of focus.                                         *)
view_unfocused(W, ui) ==
    LET M == W.mons[W.selmon]
    IN  IF (ui \cap TAGMASK) = getActiveTags(M) THEN W
        ELSE LET st == 1 - M.seltags
                 W1 == [W EXCEPT !.mons[W.selmon].seltags = st]
                 W2 == IF (ui \cap TAGMASK) # {}
                       THEN [W1 EXCEPT !.mons[W.selmon].tagset[st + 1] =
                                            ui \cap TAGMASK]
                       ELSE W1
             IN  arrangeSel(W2)

(* view that stores its argument without masking it.                       *)
view_unmasked(W, ui) ==
    LET M == W.mons[W.selmon]
    IN  IF (ui \cap TAGMASK) = getActiveTags(M) THEN W
        ELSE LET st == 1 - M.seltags
                 W1 == [W EXCEPT !.mons[W.selmon].seltags = st]
                 W2 == IF (ui \cap TAGMASK) # {}
                       THEN [W1 EXCEPT !.mons[W.selmon].tagset[st + 1] = ui]
                       ELSE W1
             IN  arrangeSel(focusNull(W2))

(* view that writes the active slot instead of switching slots.            *)
view_sameSlot(W, ui) ==
    IF (ui \cap TAGMASK) = getActiveTags(W.mons[W.selmon]) THEN W
    ELSE arrangeSel(focusNull(
             IF (ui \cap TAGMASK) # {}
             THEN [W EXCEPT !.mons[W.selmon].tagset[W.mons[W.selmon].seltags + 1]
                                = ui \cap TAGMASK]
             ELSE W))

view(W, ui) ==
    LET M == W.mons[W.selmon]
    IN  IF (ui \cap TAGMASK) = getActiveTags(M) THEN W
        ELSE LET st == 1 - M.seltags
                 W1 == [W EXCEPT !.mons[W.selmon].seltags = st]
                 W2 == IF (ui \cap TAGMASK) # {}
                       THEN [W1 EXCEPT !.mons[W.selmon].tagset[st + 1] =
                                            ui \cap TAGMASK]
                       ELSE W1
             IN  arrangeSel(focusNull(W2))

tagmon(W, dir) ==
    LET sel == W.mons[W.selmon].sel
    IN  IF sel = NULL \/ Len(W.mons) <= 1 THEN W
        ELSE sendmon(W, sel, dirtomon(W, dir))

focusmon(W, dir) ==
    IF Len(W.mons) <= 1 THEN W
    ELSE LET m == dirtomon(W, dir)
         IN  IF m = W.selmon THEN W
             ELSE focusNull([unfocus(W, W.mons[W.selmon].sel, FALSE)
                                EXCEPT !.selmon = m])

(* setlayout that writes the active slot instead of switching slots.       *)
setlayout_sameSlot(W, l) ==
    LET W2 == IF l # 0
              THEN [W EXCEPT !.mons[W.selmon].layout[W.mons[W.selmon].sellt + 1]
                                 = layouts[l]]
              ELSE [W EXCEPT !.mons[W.selmon].sellt = 1 - @]
        W3 == [W2 EXCEPT !.mons[W.selmon].ltsymbol =
                             LayoutSymbol(getActiveLayout(W2.mons[W.selmon]))]
    IN  IF W.mons[W.selmon].sel # NULL THEN arrangeSel(W3) ELSE W3

(* setlayout(arg) with arg->v a layout of the table, or NULL               *)
(* (togglelayout in the vector unit).  l is an index into layouts or 0.    *)
setlayout(W, l) ==
    LET M  == W.mons[W.selmon]
        lt == IF l = 0 \/ layouts[l] # getActiveLayout(M)
              THEN 1 - M.sellt ELSE M.sellt
        W1 == [W EXCEPT !.mons[W.selmon].sellt = lt]
        W2 == IF l # 0 THEN [W1 EXCEPT !.mons[W.selmon].layout[lt + 1] = layouts[l]]
              ELSE W1
        W3 == [W2 EXCEPT !.mons[W.selmon].ltsymbol =
                             LayoutSymbol(getActiveLayout(W2.mons[W.selmon]))]
    IN  IF M.sel # NULL THEN arrangeSel(W3) ELSE W3

(* setmfact(f), f in hundredths.  src/dwm.cpp: below 1.0 the argument is   *)
(* added, from 1.0 on it sets the factor absolutely, and a result outside  *)
(* [0.05, 0.95] is rejected.  Vector unit: the argument is added and the   *)
(* sum clamped.                                                            *)
setmfact(W, f) ==
    LET M == W.mons[W.selmon]
    IN  IF ~HasArrange(getActiveLayout(M)) THEN W
        ELSE IF build = "dwm"
        THEN LET g == IF f < 100 THEN f + M.mfact ELSE f - 100
             IN  IF g < 5 \/ g > 95 THEN W
                 ELSE arrangeSel([W EXCEPT !.mons[W.selmon].mfact = g])
        ELSE arrangeSel([W EXCEPT !.mons[W.selmon].mfact =
                                      Max(5, Min(95, M.mfact + f))])

(* incnmaster without the floor at 0.                                      *)
incnmaster_unfloored(W, i) ==
    arrangeSel([W EXCEPT !.mons[W.selmon].nmaster = @ + i])

incnmaster(W, i) ==
    arrangeSel([W EXCEPT !.mons[W.selmon].nmaster = Max(@ + i, 0)])

setgaps(W, i) ==
    LET M == W.mons[W.selmon]
    IN  arrangeSel([W EXCEPT !.mons[W.selmon].gappx =
                       IF i = 0 \/ M.gappx + i < 0 THEN 0 ELSE M.gappx + i])

togglebar(W) ==
    LET M  == W.mons[W.selmon]
        M1 == updatebarpos([M EXCEPT !.showbar = IF M.showbar # 0 THEN 0 ELSE 1])
    IN  arrangeSel(SetMon(W, W.selmon, M1))

togglefloating(W) ==
    LET sel == W.mons[W.selmon].sel
    IN  IF sel = NULL THEN W ELSE arrangeSel(toggleFloating(W, sel))

(* The MotionNotify case of the loop of Client::resizeWithMouse, started   *)
(* by resizemouse on the selected client c (not fullscreen), the pointer   *)
(* being at (ex, ey) and the drag having started at the client's present   *)
(* position.                                                               *)
resizeMotionTo(W, c, newWidth, newHeight) ==
    LET C == W.cl[c]
        M == MonOf(W, c)
        S == W.mons[W.selmon]
        W1 == IF /\ M.wRect.x + newWidth >= S.wRect.x
                 /\ M.wRect.x + newWidth <= S.wRect.x + S.wRect.w
                 /\ M.wRect.y + newHeight >= S.wRect.y
                 /\ M.wRect.y + newHeight <= S.wRect.y + S.wRect.h
                 /\ ~C.isFloating
                 /\ HasArrange(getActiveLayout(S))
                 /\ (\/ Abs(newWidth - C.size.w) > snap
                     \/ Abs(newHeight - C.size.h) > snap)
              THEN togglefloating(W) ELSE W
    IN  IF ~HasArrange(getActiveLayout(S)) \/ W1.cl[c].isFloating
        THEN resize(W1, c, W1.cl[c].size.x, W1.cl[c].size.y,
                    newWidth, newHeight, TRUE)
        ELSE W1

resizeMotion(W, c, ex, ey) ==
    resizeMotionTo(W, c,
                   Max(ex - W.cl[c].size.x - 2 * W.cl[c].bw + 1, 1),
                   Max(ey - W.cl[c].size.y - 2 * W.cl[c].bw + 1, 1))

(* The MotionNotify case of the loop of Client::moveWithMouse on client c, *)
(* (newX, newY) being the position the pointer asks for: it snaps to the   *)
(* edges of the selected monitor's window area, less the gap.              *)
snapToEdge(pos, outer, lo, len, gap) ==
    IF Abs(lo - pos - gap) < snap THEN lo + gap
    ELSE IF Abs((lo + len) - (pos + outer + gap)) < snap
    THEN lo + len - outer - gap
    ELSE pos

moveMotionTo(W, c, newX, newY) ==
    LET C == W.cl[c]
        S == W.mons[W.selmon]
        W1 == IF /\ ~C.isFloating
                 /\ HasArrange(getActiveLayout(S))
                 /\ (\/ Abs(newX - C.size.x) > snap
                     \/ Abs(newY - C.size.y) > snap)
              THEN togglefloating(W) ELSE W
    IN  IF ~HasArrange(getActiveLayout(S)) \/ W1.cl[c].isFloating
        THEN resize(W1, c, newX, newY, W1.cl[c].size.w, W1.cl[c].size.h, TRUE)
        ELSE W1

moveMotion(W, c, x, y) ==
    LET C == W.cl[c]
        S == W.mons[W.selmon]
    IN  moveMotionTo(W, c,
            snapToEdge(x, getOuterWidth(C), S.wRect.x, S.wRect.w, S.gappx),
            snapToEdge(y, getOuterHeight(C), S.wRect.y, S.wRect.h, S.gappx))

(* pop(c) of src/dwm.cpp                                                   *)
pop(W, c) == arrange(focus(attach(detach(W, c), c), c), W.cl[c].mon)

(* zoom of src/dwm.cpp.  With no selected client and a tiled client on the *)
(* monitor, pop is called with a null pointer.                             *)
zoom(W) ==
    LET M  == W.mons[W.selmon]
        c  == M.sel
        tl == getTiledClients(W, W.selmon)
        first == IF tl = <<>> THEN NULL ELSE Head(tl)
    IN  IF ~HasArrange(getActiveLayout(M)) \/ (c # NULL /\ W.cl[c].isFloating)
        THEN W
        ELSE IF c = first /\ (c = NULL \/ Len(tl) < 2) THEN W
        ELSE IF c = NULL THEN [W EXCEPT !.crashed = TRUE]
        ELSE pop(W, IF c = first THEN tl[2] ELSE c)

(* zoom / Monitor::zoomClientToMaster of the vector unit: drop_while stops *)
(* at the client itself, so the first tiled client is replaced by itself.  *)
Monitor_zoom(W) ==
    LET m == W.selmon
        M == W.mons[m]
        c == M.sel
    IN  IF c = NULL THEN W
        ELSE IF ~HasArrange(getActiveLayout(M)) \/ W.cl[c].isFloating THEN W
        ELSE LET W1 == [W EXCEPT !.mons[m].clients = <<c>> \o Remove(@, c)]
             IN  arrange(Monitor_focus(W1, m, c), m)

(* focus(c) on the client's monitor: focus(c) / c->fMonitor->focus(c)      *)
focusClient(W, c) ==
    IF build = "dwm" THEN focus(W, c) ELSE Monitor_focus(W, W.cl[c].mon, c)

(* focusstack that stops at the end of the client list going forward.     *)
focusstack_noWrap(W, dir) ==
    LET M   == W.mons[W.selmon]
        sel == M.sel
        vis(q) == SelectSeq(q, LAMBDA d : isVisible(W, d))
        pos == CHOOSE i \in 1..Len(M.clients) : M.clients[i] = sel
        after  == vis(SubSeq(M.clients, pos + 1, Len(M.clients)))
        before == vis(SubSeq(M.clients, 1, pos - 1))
        from   == vis(SubSeq(M.clients, pos, Len(M.clients)))
        c == IF dir > 0
             THEN (IF after # <<>> THEN Head(after) ELSE NULL)
             ELSE (IF before # <<>> THEN before[Len(before)]
                   ELSE IF from # <<>> THEN from[Len(from)] ELSE NULL)
    IN  IF sel = NULL \/ (W.cl[sel].isFullscreen /\ lockfullscreen # 0) THEN W
        ELSE IF c = NULL THEN W
        ELSE IF build = "dwm" THEN focus(W, c)
        ELSE Monitor_focus(W, W.selmon, c)

(* focusstack that, going backward from the first visible client, takes    *)
(* the next visible client instead of the last.                            *)
focusstack_wrapToNearest(W, dir) ==
    LET M   == W.mons[W.selmon]
        sel == M.sel
        vis(q) == SelectSeq(q, LAMBDA d : isVisible(W, d))
        pos == CHOOSE i \in 1..Len(M.clients) : M.clients[i] = sel
        after  == vis(SubSeq(M.clients, pos + 1, Len(M.clients)))
        before == vis(SubSeq(M.clients, 1, pos - 1))
        all    == vis(M.clients)
        c == IF dir > 0
             THEN (IF after # <<>> THEN Head(after)
                   ELSE IF all # <<>> THEN Head(all) ELSE NULL)
             ELSE (IF before # <<>> THEN before[Len(before)]
                   ELSE IF after # <<>> THEN Head(after) ELSE NULL)
    IN  IF sel = NULL \/ (W.cl[sel].isFullscreen /\ lockfullscreen # 0) THEN W
        ELSE IF c = NULL THEN W
        ELSE IF build = "dwm" THEN focus(W, c)
        ELSE Monitor_focus(W, W.selmon, c)

(* focusstack(dir) / Monitor::shiftFocusThroughStack(dir): the next or the *)
(* previous visible client in client order, wrapping around.               *)
focusstack(W, dir) ==
    LET M   == W.mons[W.selmon]
        sel == M.sel
        vis(q) == SelectSeq(q, LAMBDA d : isVisible(W, d))
        pos == CHOOSE i \in 1..Len(M.clients) : M.clients[i] = sel
        after  == vis(SubSeq(M.clients, pos + 1, Len(M.clients)))
        before == vis(SubSeq(M.clients, 1, pos - 1))
        from   == vis(SubSeq(M.clients, pos, Len(M.clients)))
        all    == vis(M.clients)
        c == IF dir > 0
             THEN (IF after # <<>> THEN Head(after)
                   ELSE IF all # <<>> THEN Head(all) ELSE NULL)
             ELSE (IF before # <<>> THEN before[Len(before)]
                   ELSE IF from # <<>> THEN from[Len(from)] ELSE NULL)
    IN  IF sel = NULL \/ (W.cl[sel].isFullscreen /\ lockfullscreen # 0) THEN W
        ELSE IF c = NULL THEN W
        ELSE IF build = "dwm" THEN focus(W, c)
        ELSE Monitor_focus(W, W.selmon, c)

(* clientmessage, _NET_WM_STATE with the fullscreen atom; action is        *)
(* data.l[0]: 0 remove, 1 add, 2 toggle.                                   *)
clientmessageState(W, c, action) ==
    setFullscreen(W, c, action = 1 \/ (action = 2 /\ ~W.cl[c].isFullscreen))

(* clientmessage, _NET_ACTIVE_WINDOW                                       *)
clientmessageActive(W, c) ==
    IF c # W.mons[W.selmon].sel /\ ~W.cl[c].isUrgent
    THEN [W EXCEPT !.cl[c].isUrgent = TRUE] ELSE W

(* Client::handleConfigurationRequest; ev.mask is the set of value_mask    *)
(* bits among "X", "Y", "W", "H", "BW".                                    *)
requestedGeometry(C, M, ev) ==
    [C EXCEPT !.oldSize.x = IF "X" \in ev.mask THEN C.size.x ELSE @,
              !.size.x    = IF "X" \in ev.mask THEN M.sRect.x + ev.x ELSE @,
              !.oldSize.y = IF "Y" \in ev.mask THEN C.size.y ELSE @,
              !.size.y    = IF "Y" \in ev.mask THEN M.sRect.y + ev.y ELSE @,
              !.oldSize.w = IF "W" \in ev.mask THEN C.size.w ELSE @,
              !.size.w    = IF "W" \in ev.mask THEN ev.w ELSE @,
              !.oldSize.h = IF "H" \in ev.mask THEN C.size.h ELSE @,
              !.size.h    = IF "H" \in ev.mask THEN ev.h ELSE @]

(* A floating client that would reach over the right or the bottom edge of *)
(* its monitor is centred along that axis.                                 *)
centreOnMonitor(C, M) ==
    [C EXCEPT !.size.x = IF C.size.x + C.size.w > M.sRect.x + M.sRect.w
                            /\ C.isFloating
                         THEN M.sRect.x + (CDiv(M.sRect.w, 2)
                                            - CDiv(getOuterWidth(C), 2))
                         ELSE @,
              !.size.y = IF C.size.y + C.size.h > M.sRect.y + M.sRect.h
                            /\ C.isFloating
                         THEN M.sRect.y + (CDiv(M.sRect.h, 2)
                                            - CDiv(getOuterHeight(C), 2))
                         ELSE @]

(* The request handler without its test of the floating flag and the       *)
(* layout.                                                                 *)
handleConfigurationRequest_untested(W, c, ev) ==
    IF "BW" \in ev.mask THEN [W EXCEPT !.cl[c].bw = ev.bw]
    ELSE SetClient(W, c, centreOnMonitor(
                             requestedGeometry(W.cl[c], MonOf(W, c), ev),
                             MonOf(W, c)))

handleConfigurationRequest(W, c, ev) ==
    IF "BW" \in ev.mask THEN [W EXCEPT !.cl[c].bw = ev.bw]
    ELSE IF W.cl[c].isFloating
            \/ ~HasArrange(getActiveLayout(W.mons[W.selmon]))
    THEN SetClient(W, c, centreOnMonitor(
                             requestedGeometry(W.cl[c], MonOf(W, c), ev),
                             MonOf(W, c)))
    ELSE W

(* Client::updatePropertyFromEvent(XA_WM_TRANSIENT_FOR); trans as in       *)
(* NewClient.                                                              *)
propertyTransient(W, c, trans) ==
    IF ~W.cl[c].isFloating /\ trans # NULL
    THEN LET fl == trans \in DOMAIN W.cl
             W1 == [W EXCEPT !.cl[c].isFloating = fl]
         IN  IF fl THEN OnMon(W, W.cl[c].mon, arrange(W1, W.cl[c].mon)) ELSE W1
    ELSE W

(* ... (XA_WM_NORMAL_HINTS)                                                *)
propertyNormalHints(W, c, size) ==
    SetClient(W, c, updateSizeHintsFromX(W.cl[c], size))

(* ... (_NET_WM_WINDOW_TYPE)                                               *)
propertyWindowType(W, c, in) ==
    SetClient(W, c, updateWindowTypeFromX(W.cl[c], MonOf(W, c), in))

(* enternotify on a client window (c # NULL) or on the root window, with   *)
(* m what wintomon answers for the root window.                            *)
focusOn(W, m, c) ==
    IF build = "dwm" THEN focus(W, c) ELSE Monitor_focus(W, m, c)

(* unfocus(selmon->sel, true); selmon = m                                  *)
selectMonitor(W, m) ==
    [unfocus(W, W.mons[W.selmon].sel, TRUE) EXCEPT !.selmon = m]

enternotify(W, c, m0) ==
    LET m  == IF c # NULL THEN W.cl[c].mon ELSE m0
    IN  IF m \notin 1..Len(W.mons) THEN [W EXCEPT !.crashed = TRUE]
        ELSE IF m = W.selmon /\ (c = NULL \/ c = W.mons[W.selmon].sel) THEN W
        ELSE focusOn(IF m # W.selmon THEN selectMonitor(W, m) ELSE W, m, c)

(* buttonpress on a client window, with no button function bound to the    *)
(* click.                                                                  *)
buttonpress(W, c) ==
    OnMon(W, W.cl[c].mon,
          focusClient(IF W.cl[c].mon # W.selmon
                      THEN focusNull(selectMonitor(W, W.cl[c].mon))
                      ELSE W, c))

-----------------------------------------------------------------------------
(* Monitor geometry.                                                       *)

(* Rect::getIntersection: the area two rectangles share.                   *)
getIntersection(a, b) ==
    Max(0, Min(a.x + a.w, b.x + b.w) - Max(a.x, b.x))
      * Max(0, Min(a.y + a.h, b.y + b.h) - Max(a.y, b.y))

RECURSIVE recttomonFrom(_, _, _, _, _)
recttomonFrom(W, rect, m, r, area) ==
    IF m > Len(W.mons) THEN r
    ELSE LET a == getIntersection(rect, W.mons[m].wRect)
         IN  IF a > area THEN recttomonFrom(W, rect, m + 1, m, a)
             ELSE recttomonFrom(W, rect, m + 1, r, area)

recttomon(W, rect) == recttomonFrom(W, rect, 1, W.selmon, 0)

(* wintomon(root), the pointer being at ptr.                               *)
wintomonRoot(W, ptr) == recttomon(W, Rect(ptr.x, ptr.y, 1, 1))

(* The end of the loops without the assignment to selmon.                  *)
dragRelease_selmonKept(W, c) ==
    LET m == recttomon(W, W.cl[c].size)
    IN  IF m # W.selmon THEN focusNull(sendmon(W, c, m)) ELSE W

(* The end of both loops, after the button release of a drag of client c:  *)
(* the client goes to the monitor its rectangle is on.                     *)
dragRelease(W, c) ==
    LET m == recttomon(W, W.cl[c].size)
    IN  IF m # W.selmon
        THEN focusNull([sendmon(W, c, m) EXCEPT !.selmon = m])
        ELSE W

(* isuniquegeom / isUniqueGeometry: info is none of the rectangles kept so *)
(* far.                                                                    *)
isuniquegeom(unique, info) == \A n \in 1..Len(unique) : unique[n] # info

(* The loop of updategeom over the Xinerama answer, from entry i on.       *)
RECURSIVE uniqueFrom(_, _, _)
uniqueFrom(info, i, unique) ==
    IF i > Len(info) THEN unique
    ELSE uniqueFrom(info, i + 1,
                    IF isuniquegeom(unique, info[i]) THEN Append(unique, info[i])
                    ELSE unique)

(* The Xinerama answer with every entry kept.                              *)
uniqueGeometries_all(info) == info

(* The distinct rectangles of a Xinerama answer, in the order of their     *)
(* first appearance.                                                       *)
uniqueGeometries(info) == uniqueFrom(info, 1, <<>>)

(* The loop of updategeom that gives monitor i the geometry unique[i].     *)
RECURSIVE setGeometryFrom(_, _, _, _)
setGeometryFrom(R, unique, n, i) ==
    IF i > Len(unique) THEN R
    ELSE LET M == R.W.mons[i]
         IN  IF i > n \/ M.sRect # unique[i]
             THEN LET M1 == updatebarpos([M EXCEPT !.num = i - 1,
                                                   !.sRect = unique[i],
                                                   !.wRect = unique[i]])
                  IN  setGeometryFrom([W |-> SetMon(R.W, i, M1), dirty |-> TRUE],
                                      unique, n, i + 1)
             ELSE setGeometryFrom(R, unique, n, i + 1)

(* The loop of src/dwm.cpp that hands the clients of the last monitor to   *)
(* the first, one by one in client order: each is taken off the stack of   *)
(* the last monitor and pushed on the front of both lists of the first.    *)
(* The loop without the push onto the first monitor's stack.               *)
RECURSIVE moveClients_offStack(_, _)
moveClients_offStack(W, m) ==
    IF W.mons[m].clients = <<>> THEN W
    ELSE LET c  == Head(W.mons[m].clients)
             W1 == [W EXCEPT !.mons[m].clients = Tail(@)]
             W2 == detachstack(W1, c)
             W3 == [W2 EXCEPT !.cl[c].mon = 1]
         IN  moveClients_offStack(attach(W3, c), m)

RECURSIVE moveClients(_, _)
moveClients(W, m) ==
    IF W.mons[m].clients = <<>> THEN W
    ELSE LET c  == Head(W.mons[m].clients)
             W1 == [W EXCEPT !.mons[m].clients = Tail(@)]
             W2 == detachstack(W1, c)
             W3 == [W2 EXCEPT !.cl[c].mon = 1]
         IN  moveClients(attachstack(attach(W3, c), c), m)

RECURSIVE removeMonitors(_, _)
removeMonitors(R, nn) ==
    LET W == R.W
        m == Len(W.mons)
    IN  IF m <= nn THEN R
        ELSE LET had == W.mons[m].clients # <<>>
                 W1 == moveClients(W, m)
                 W2 == IF W1.selmon = m THEN [W1 EXCEPT !.selmon = 1] ELSE W1
                 W3 == [W2 EXCEPT !.mons = SubSeq(@, 1, m - 1)]
             IN  removeMonitors([W |-> W3, dirty |-> R.dirty \/ had], nn)

(* Monitor::transferAllClients followed by the pop_back that destroys the  *)
(* monitor: stack and clients go to the end of the first monitor's, and    *)
(* the clients' fMonitor is left pointing at the destroyed monitor.        *)
transferAllClients(W, m) ==
    [W EXCEPT !.mons[1].stack = @ \o W.mons[m].stack,
              !.mons[1].clients = @ \o W.mons[m].clients,
              !.mons[m].stack = <<>>,
              !.mons[m].clients = <<>>,
              !.mons[m].sel = NULL]

RECURSIVE popMonitors(_, _)
popMonitors(W, nn) ==
    LET m == Len(W.mons)
    IN  IF m <= nn THEN W
        ELSE LET W1 == transferAllClients(W, m)
                 M == W1.mons[m]
                 gone == [M EXCEPT !.layout[M.seltags + 1] = "empty"]
                 W2 == [W1 EXCEPT !.mons = SubSeq(@, 1, m - 1),
                                  !.freed = (m :> gone) @@ @]
             IN  popMonitors(W2, nn)

RECURSIVE appendMonitors(_, _)
appendMonitors(W, nn) ==
    IF Len(W.mons) >= nn THEN W
    ELSE appendMonitors([W EXCEPT !.mons = Append(@, createmon(Len(W.mons)))], nn)

(* updategeom / updateDisplayGeometry with Xinerama active; unique is the  *)
(* list of distinct screen rectangles, ptr the pointer position.  The      *)
(* result is the world and the value returned.                             *)
updategeom(W, unique, ptr) ==
    LET n  == Len(W.mons)
        nn == Len(unique)
        R  == IF n <= nn
              THEN setGeometryFrom([W |-> appendMonitors(W, nn), dirty |-> FALSE],
                                   unique, n, 1)
              ELSE IF build = "dwm"
              THEN removeMonitors([W |-> W, dirty |-> FALSE], nn)
              ELSE [W |-> popMonitors([W EXCEPT !.selmon = 1], nn), dirty |-> TRUE]
    IN  IF R.dirty
        THEN [W |-> [R.W EXCEPT !.selmon = wintomonRoot([R.W EXCEPT !.selmon = 1],
                                                        ptr)],
              dirty |-> TRUE]
        ELSE R

(* The loop of configurenotify / Monitor::updateXGeometry: the fullscreen  *)
(* clients in a monitor's list get the monitor's screen rectangle.         *)
RECURSIVE fullscreenLoop(_, _, _)
fullscreenLoop(W, m, rest) ==
    IF rest = <<>> THEN W
    ELSE LET c == Head(rest)
             W1 == IF W.cl[c].isFullscreen
                   THEN SetClient(W, c, resizeXClient(W.cl[c], W.mons[m].sRect))
                   ELSE W
         IN  fullscreenLoop(W1, m, Tail(rest))

RECURSIVE updateXGeometryFrom(_, _)
updateXGeometryFrom(W, m) ==
    IF m > Len(W.mons) THEN W
    ELSE updateXGeometryFrom(fullscreenLoop(W, m, W.mons[m].clients), m + 1)

(* configurenotify for the root window.                                    *)
geometryChanged(R, dirty) ==
    IF R.dirty \/ dirty
    THEN arrangeEvery(focusNull(updateXGeometryFrom(R.W, 1)))
    ELSE R.W

configurenotify(W, ev) ==
    geometryChanged(
        updategeom([W EXCEPT !.screen = [w |-> ev.w, h |-> ev.h,
                                         unique |-> ev.unique]],
                   ev.unique, ev.ptr),
        W.screen.w # ev.w \/ W.screen.h # ev.h)

(* motionnotify on the root window.  In src/dwm.cpp the remembered monitor *)
(* is a local that starts as NULL on every call, so nothing happens; in    *)
(* the vector unit it is static.                                           *)
motionnotifyOn(W, m) ==
    [(IF m # W.motionmon /\ W.motionmon # NULL
      THEN focusNull(selectMonitor(W, m)) ELSE W)
        EXCEPT !.motionmon = m]

motionnotify(W, ptr) ==
    IF build = "dwm" THEN W
    ELSE motionnotifyOn(W, recttomon(W, Rect(ptr.x, ptr.y, 1, 1)))

-----------------------------------------------------------------------------
(* The inputs the model draws from.                                        *)

(* Xinerama answers: one screen, or two side by side.                      *)
OneScreen == <<Rect(0, 0, 1000, 600)>>
TwoScreens == <<Rect(0, 0, 1000, 600), Rect(1000, 0, 1000, 600)>>

(* Root geometry and screens that go together.                             *)
ScreenSetups == {[w |-> 1000, h |-> 600, unique |-> OneScreen],
                 [w |-> 2000, h |-> 600, unique |-> TwoScreens]}

(* Pointer positions: the middle of a screen.                              *)
PointersOf(unique) ==
    {[x |-> unique[i].x + CDiv(unique[i].w, 2),
      y |-> unique[i].y + CDiv(unique[i].h, 2)] : i \in 1..Len(unique)}

(* WM_NORMAL_HINTS values: none, a minimum size, a fixed size.             *)
MinSizeHints == [NoHints EXCEPT !.flags = {"PMinSize"}, !.min = <<600, 100>>]
FixedSizeHints == [NoHints EXCEPT !.flags = {"PMinSize", "PMaxSize"},
                                  !.min = <<200, 100>>, !.max = <<200, 100>>]

(* What the X server can answer for a window being mapped: a plain window, *)
(* and windows that differ from it in one respect.                         *)
PlainWindow == [rect |-> Rect(100, 100, 300, 200), bw |-> 0, trans |-> NULL,
                class |-> "", size |-> NoHints, fullscreen |-> FALSE,
                dialog |-> FALSE, wmhints |-> "input", heap |-> FALSE]

MapInputs(w) ==
    {PlainWindow,
     [PlainWindow EXCEPT !.class = "Gimp"],
     [PlainWindow EXCEPT !.class = "Firefox"],
     [PlainWindow EXCEPT !.size = FixedSizeHints],
     [PlainWindow EXCEPT !.size = MinSizeHints],
     [PlainWindow EXCEPT !.fullscreen = TRUE],
     [PlainWindow EXCEPT !.wmhints = "none", !.heap = TRUE]}
    \cup {[PlainWindow EXCEPT !.trans = t] : t \in Windows \ {w}}

(* Arguments of the key bindings: a tag, the 0 of view(0), ~0.             *)
ViewArgs == {{}, {1}}
ToggleViewArgs == {{1}}
TagArgs == {{1}, AllBits}
ToggleTagArgs == {{1}, AllBits}
LayoutArgs == {0, 2}

(* setmfact arguments, in hundredths: the steps of the key bindings, a     *)
(* large step either way, and 1.95 (in src/dwm.cpp: set to 0.95).          *)
MFactArgs == {-50, -5, 5, 50, 195}

ConfigureEvents ==
    {[mask |-> {"W", "H"}, x |-> 0, y |-> 0, w |-> 10, h |-> 10, bw |-> 0],
     [mask |-> {"BW"}, x |-> 0, y |-> 0, w |-> 0, h |-> 0, bw |-> 3]}

NoHist == [op |-> "none", c |-> NULL, size |-> Rect(0, 0, 0, 0), bw |-> 0,
           fl |-> FALSE, settled |-> FALSE, rects |-> <<>>,
           arg |-> 0, before |-> <<>>]

(* No mouse move or resize is going on.  Otherwise: which of the two, the  *)
(* client (this), originalX and originalY, and where the pointer was when  *)
(* the loop was entered.                                                   *)
NoDrag == [kind |-> "none", c |-> NULL, ox |-> 0, oy |-> 0, px |-> 0, py |-> 0]

-----------------------------------------------------------------------------
(* The state machine.                                                      *)

EmptyWorld == [mons |-> <<>>, freed |-> <<>>, cl |-> <<>>, selmon |-> 1,
               screen |-> [w |-> 0, h |-> 0, unique |-> <<>>], active |-> NULL,
               clist |-> <<>>, motionmon |-> NULL, crashed |-> FALSE]

Running == pc = "run" /\ steps < MaxSteps

Stale(W) == \E c \in DOMAIN W.cl : Dangling(W, c)

(* Destroyed monitors are kept only while a client still points at them.   *)
Collect(W) ==
    LET keep == {W.cl[c].mon : c \in DOMAIN W.cl} \ (1..Len(W.mons))
    IN  IF keep = {} THEN <<>> ELSE [i \in keep |-> W.freed[i]]

(* The state after a handler that led to world W, h being what the         *)
(* handler leaves in hist.  A handler that faulted ends the program; so    *)
(* may any handler that runs while a client points at a destroyed monitor. *)
Commit(W, h) ==
    \/ /\ ~W.crashed
       /\ mons' = W.mons
       /\ freed' = Collect(W)
       /\ cl' = W.cl
       /\ selmon' = W.selmon
       /\ screen' = W.screen
       /\ active' = W.active
       /\ clist' = W.clist
       /\ motionmon' = W.motionmon
       /\ hist' = h
       /\ steps' = steps + 1
       /\ UNCHANGED <<build, pc, drag>>
    \/ /\ W.crashed \/ Stale(World)
       /\ pc' = "crashed"
       /\ hist' = NoHist
       /\ steps' = steps + 1
       /\ UNCHANGED <<build, mons, freed, cl, selmon, screen, active, clist,
                      motionmon, drag>>

(* setup(): the monitors are created from the first Xinerama answer.       *)
Init ==
    /\ build \in {"dwm", "x"}
    /\ \E s \in ScreenSetups : \E ptr \in PointersOf(s.unique) :
         LET W == updategeom([EmptyWorld EXCEPT !.screen = s], s.unique, ptr).W
         IN  /\ mons = W.mons
             /\ selmon = W.selmon
             /\ screen = W.screen
    /\ freed = <<>>
    /\ cl = <<>>
    /\ active = NULL
    /\ clist = <<>>
    /\ motionmon = NULL
    /\ pc = "run"
    /\ drag = NoDrag
    /\ steps = 0
    /\ hist = NoHist

Managed == DOMAIN cl

MapRequest ==
    /\ Running
    /\ \E w \in Windows \ Managed : \E in \in MapInputs(w) :
         /\ \A v \in Windows \ Managed : w <= v
         /\ Commit(manage(World, w, in), NoHist)

DestroyNotify ==
    /\ Running
    /\ \E c \in Managed : Commit(unmanage(World, c), NoHist)

UnmapNotify ==
    /\ Running
    /\ \E c \in Managed : Commit(unmanage(World, c), NoHist)

ConfigureRequest ==
    /\ Running
    /\ \E c \in Managed : \E ev \in ConfigureEvents :
         Commit(handleConfigurationRequest(World, c, ev), NoHist)

(* What a fullscreen request leaves in hist: on entering, the client's     *)
(* rectangle, border width and floating flag from before, and whether      *)
(* arranging its monitor then would have left the rectangle alone; on      *)
(* leaving right after having entered, the same values, marked "exit".     *)
Settled(c) ==
    /\ ~Dangling(World, c)
    /\ arrange(World, cl[c].mon).cl[c].size = cl[c].size

FullscreenHist(c, want) ==
    IF want /\ ~cl[c].isFullscreen
    THEN [op |-> "enter", c |-> c, size |-> cl[c].size, bw |-> cl[c].bw,
          fl |-> cl[c].isFloating, settled |-> Settled(c), rects |-> <<>>]
    ELSE IF ~want /\ cl[c].isFullscreen /\ hist.op = "enter" /\ hist.c = c
    THEN [hist EXCEPT !.op = "exit"]
    ELSE NoHist

ClientMessageState ==
    /\ Running
    /\ \E c \in Managed : \E action \in 0..2 :
         Commit(clientmessageState(World, c, action),
                FullscreenHist(c, action = 1
                                  \/ (action = 2 /\ ~cl[c].isFullscreen)))

ClientMessageActive ==
    /\ Running
    /\ \E c \in Managed : Commit(clientmessageActive(World, c), NoHist)

PropertyTransient ==
    /\ Running
    /\ \E c \in Managed : \E trans \in Windows \ {c} :
         Commit(propertyTransient(World, c, trans), NoHist)

PropertyNormalHints ==
    /\ Running
    /\ \E c \in Managed : \E size \in {MinSizeHints} :
         Commit(propertyNormalHints(World, c, size), NoHist)

PropertyWindowType ==
    /\ Running
    /\ \E c \in Managed :
         Commit(propertyWindowType(World, c,
                                   [fullscreen |-> FALSE, dialog |-> TRUE]),
                NoHist)

(* The pointer can only enter, or be clicked on, a window that is shown.   *)
EnterNotify ==
    /\ Running
    /\ \/ \E c \in Managed : /\ isVisible(World, c)
                             /\ Commit(enternotify(World, c, NULL), NoHist)
       \/ \E ptr \in PointersOf(screen.unique) :
            Commit(enternotify(World, NULL, wintomonRoot(World, ptr)), NoHist)

ButtonPress ==
    /\ Running
    /\ \E c \in Managed : /\ isVisible(World, c)
                          /\ Commit(buttonpress(World, c), NoHist)

MotionNotify ==
    /\ Running
    /\ \E ptr \in PointersOf(screen.unique) :
         Commit(motionnotify(World, ptr), NoHist)

ConfigureNotify ==
    /\ Running
    /\ \E s \in ScreenSetups : \E ptr \in PointersOf(s.unique) :
         Commit(configurenotify(World, [w |-> s.w, h |-> s.h,
                                        unique |-> s.unique, ptr |-> ptr]),
                NoHist)

View == Running /\ \E ui \in ViewArgs : Commit(view(World, ui), NoHist)

ToggleView == Running /\ \E ui \in ToggleViewArgs : Commit(toggleview(World, ui), NoHist)

Tag == Running /\ \E ui \in TagArgs : Commit(tag(World, ui), NoHist)

ToggleTag == Running /\ \E ui \in ToggleTagArgs : Commit(toggletag(World, ui), NoHist)

TagMon == Running /\ \E dir \in {-1, 1} : Commit(tagmon(World, dir), NoHist)

FocusMon == Running /\ \E dir \in {-1, 1} : Commit(focusmon(World, dir), NoHist)

FocusStack == Running /\ \E dir \in {-1, 1} : Commit(focusstack(World, dir), NoHist)

SetLayout == Running /\ \E l \in LayoutArgs : Commit(setlayout(World, l), NoHist)

ToggleFloating == Running /\ Commit(togglefloating(World), NoHist)

IncNMaster == Running /\ \E i \in {-1, 1} : Commit(incnmaster(World, i), NoHist)

SetMFact == Running /\ \E f \in MFactArgs : Commit(setmfact(World, f), NoHist)

SetGaps == Running /\ \E i \in {-1, 0, 1} : Commit(setgaps(World, i), NoHist)

ToggleBar == Running /\ Commit(togglebar(World), NoHist)

Zoom ==
    /\ Running
    /\ Commit(IF build = "dwm" THEN zoom(World) ELSE Monitor_zoom(World), NoHist)

Next ==
    \/ MapRequest \/ DestroyNotify \/ UnmapNotify \/ ConfigureRequest
    \/ ClientMessageState \/ ClientMessageActive
    \/ PropertyTransient \/ PropertyNormalHints \/ PropertyWindowType
    \/ EnterNotify \/ ButtonPress \/ MotionNotify \/ ConfigureNotify
    \/ View \/ ToggleView \/ Tag \/ ToggleTag \/ TagMon \/ FocusMon
    \/ FocusStack \/ SetLayout \/ ToggleFloating \/ Zoom

Spec == Init /\ [][Next]_vars

-----------------------------------------------------------------------------
(* Properties.                                                             *)

MonIds == 1..Len(mons)

(* C1: after every handled event the focus stack of every monitor is a     *)
(* permutation of its client list: the same clients, each exactly once.    *)
C1_StackIsPermutation ==
    \A m \in MonIds : IsPerm(mons[m].stack, mons[m].clients)

(* C1 is exercised where a monitor has two clients whose focus order is    *)
(* not their client order.                                                 *)
C1_Witness ==
    \E m \in MonIds : /\ Len(mons[m].clients) = 2
                      /\ mons[m].stack # mons[m].clients

(* C2: on every monitor, selected or not, the selected client is null or   *)
(* is in the monitor's client list and stack and is visible there.         *)
C2_SelValid ==
    \A m \in MonIds :
        \/ mons[m].sel = NULL
        \/ /\ mons[m].sel \in Range(mons[m].clients)
           /\ mons[m].sel \in Range(mons[m].stack)
           /\ isVisible(World, mons[m].sel)

(* C3: every client is in the client list of exactly one monitor, and its  *)
(* monitor back-reference is that monitor.                                 *)
C3_OneMonitor ==
    \A c \in Managed :
        /\ Cardinality({m \in MonIds : c \in Range(mons[m].clients)}) = 1
        /\ cl[c].mon \in MonIds
        /\ c \in Range(mons[cl[c].mon].clients)

(* C4: every managed client has a tag mask that is not zero and has no bit *)
(* outside the valid tags.                                                 *)
C4_TagsValid ==
    \A c \in Managed : cl[c].tags # {} /\ cl[c].tags \subseteq TAGMASK

(* C4 is exercised by a client that tag(~0) has put on every tag.          *)
C4_Witness ==
    \E c \in Managed : cl[c].tags = TAGMASK

(* C8: when a client that was not fullscreen is made fullscreen and then   *)
(* taken out of fullscreen again, it has the rectangle and the border      *)
(* width it had before.                                                    *)
C8_FullscreenRoundTrip ==
    hist.op = "exit" =>
        /\ cl[hist.c].size = hist.size
        /\ cl[hist.c].bw = hist.bw

(* C9: after the same round trip the client floats exactly if it floated   *)
(* before: a tiled client is tiled again, a floating one still floats.     *)
C9_FloatingRestored ==
    hist.op = "exit" => cl[hist.c].isFloating = hist.fl

(* C8, amended: the border width is restored; the rectangle is restored if *)
(* it was, before the round trip, what arranging the monitor leaves it at. *)
C8_RoundTripSettled ==
    hist.op = "exit" =>
        /\ cl[hist.c].bw = hist.bw
        /\ hist.settled => cl[hist.c].size = hist.size

(* The amended C8 is exercised by a round trip of a tiled client whose     *)
(* rectangle was settled, and is back, and is not the screen's.            *)
C8_Witness ==
    /\ hist.op = "exit"
    /\ hist.settled
    /\ ~hist.fl
    /\ cl[hist.c].size = hist.size
    /\ cl[hist.c].size # MonAt(World, cl[hist.c].mon).sRect

(* The layout-parameter commands of the key bindings, on the monitors and  *)
(* clients that map requests and pointer crossings set up.                 *)
NextLayout ==
    \/ MapRequest \/ EnterNotify \/ SetLayout
    \/ IncNMaster \/ SetMFact \/ SetGaps \/ ToggleBar

SpecLayout == Init /\ [][NextLayout]_vars

(* C5: whatever incnmaster, setmfact and setgaps have been asked to do,    *)
(* on every monitor the master count is at least 0, the master factor is   *)
(* within [0.05, 0.95] and the gap is at least 0.                          *)
C5_LayoutParameters ==
    \A m \in MonIds : /\ mons[m].nmaster >= 0
                      /\ mons[m].mfact >= 5 /\ mons[m].mfact <= 95
                      /\ mons[m].gappx >= 0

(* A monitor on which all three commands have hit their limits.            *)
C5_Witness ==
    \E m \in MonIds : /\ mons[m].nmaster = 0
                      /\ mons[m].mfact \in {5, 95}
                      /\ mons[m].gappx = 0
                      /\ steps = MaxSteps

-----------------------------------------------------------------------------
(* tile examined as a function: one monitor whose layout parameters are    *)
(* values the commands can have left, windows mapped onto it, nmaster      *)
(* changed, and tile called once more on what the last arrange left.       *)

TileGaps == {0, 5, 50}
TileMFacts == {50, 95}
TileNMasters == {0, 1, 2}

TileInputs == {PlainWindow,
               [PlainWindow EXCEPT !.size = MinSizeHints],
               [PlainWindow EXCEPT !.size = FixedSizeHints]}

InitTile ==
    /\ build \in {"dwm", "x"}
    /\ \E g \in TileGaps : \E f \in TileMFacts : \E k \in TileNMasters :
       \E bar \in {0, 1} :
         LET s  == [w |-> 1000, h |-> 600, unique |-> OneScreen]
             W0 == updategeom([EmptyWorld EXCEPT !.screen = s], OneScreen,
                              [x |-> 500, y |-> 300]).W
             W1 == IF bar = showbar THEN W0 ELSE togglebar(W0)
         IN  /\ mons = [W1.mons EXCEPT ![1].gappx = g, ![1].mfact = f,
                                       ![1].nmaster = k]
             /\ selmon = W1.selmon
             /\ screen = W1.screen
    /\ freed = <<>>
    /\ cl = <<>>
    /\ active = NULL
    /\ clist = <<>>
    /\ motionmon = NULL
    /\ pc = "run"
    /\ drag = NoDrag
    /\ steps = 0
    /\ hist = NoHist

MapTiled ==
    /\ Running
    /\ \E w \in (1..MaxTiled) \ Managed : \E in \in TileInputs :
         /\ \A v \in (1..MaxTiled) \ Managed : w <= v
         /\ Commit(manage(World, w, in), NoHist)

(* tile called again on the state the last handler's arrange left; hist    *)
(* keeps the rectangles that call found.                                   *)
Retile ==
    /\ Running
    /\ Managed # {}
    /\ Commit(tile(World, selmon),
              [NoHist EXCEPT !.op = "retile",
                             !.rects = [c \in Managed |-> cl[c].size]])

NextTile == MapTiled \/ IncNMaster \/ Retile

SpecTile == InitTile /\ [][NextTile]_vars

(* The tiled clients of the one monitor, the master column's and the stack *)
(* column's, and the width tile gives the master column.                   *)
Tiled == getTiledClients(World, 1)

MasterCount == Min(Len(Tiled), mons[1].nmaster)

MasterColumn == {Tiled[i] : i \in 1..MasterCount}

StackColumn == {Tiled[i] : i \in (MasterCount + 1)..Len(Tiled)}

MasterWidth ==
    IF Len(Tiled) > mons[1].nmaster
    THEN (IF mons[1].nmaster # 0
          THEN CDiv(mons[1].wRect.w * mons[1].mfact, 100) ELSE 0)
    ELSE mons[1].wRect.w - mons[1].gappx

(* C6: of n tiled clients the first min(n, nmaster) stand in the master    *)
(* column, the others in the stack column, and no master client's outer    *)
(* rectangle reaches into the horizontal extent of a stack client's.       *)
C6_TileColumns ==
    /\ \A c \in MasterColumn : cl[c].size.x = mons[1].wRect.x + mons[1].gappx
    /\ \A c \in StackColumn :
           cl[c].size.x = mons[1].wRect.x + MasterWidth + mons[1].gappx
    /\ \A a \in MasterColumn : \A b \in StackColumn :
           \/ cl[a].size.x + getOuterWidth(cl[a]) <= cl[b].size.x
           \/ cl[b].size.x + getOuterWidth(cl[b]) <= cl[a].size.x

(* C7: a second call of tile, nothing having changed since the first,      *)
(* leaves every tiled client with the rectangle the first call gave it.    *)
C7_TileIdempotent ==
    hist.op = "retile" =>
        \A i \in 1..Len(Tiled) : cl[Tiled[i]].size = hist.rects[Tiled[i]]

(* The scenario of C10: usable rectangle (0, 0, 1000, 600), gap 5, one     *)
(* master, master factor 0.5, three tiled clients of border width 1 that   *)
(* state no size hints.                                                    *)
Scenario ==
    /\ mons[1].wRect = Rect(0, 0, 1000, 600)
    /\ mons[1].gappx = 5
    /\ mons[1].nmaster = 1
    /\ mons[1].mfact = 50
    /\ Len(Tiled) = 3
    /\ \A i \in 1..3 : /\ cl[Tiled[i]].bw = 1
                       /\ cl[Tiled[i]].minw = 0 /\ cl[Tiled[i]].maxw = 0

About(v, n) == Abs(v - n) <= 2

(* The scenario's numbers read as sizes inside the border (b = 0) or as    *)
(* outer sizes (b = 1).                                                    *)
ScenarioAsStated(b) ==
    LET w(c) == cl[c].size.w + 2 * b * cl[c].bw
        h(c) == cl[c].size.h + 2 * b * cl[c].bw
    IN  /\ cl[Tiled[1]].size.x = 5 /\ cl[Tiled[1]].size.y = 5
        /\ About(w(Tiled[1]), 489) /\ h(Tiled[1]) = 590
        /\ About(w(Tiled[2]), 489) /\ About(h(Tiled[2]), 292)
        /\ About(w(Tiled[3]), 489) /\ About(h(Tiled[3]), 292)
        /\ cl[Tiled[2]].size.y = 5
        /\ cl[Tiled[3]].size.y
               = cl[Tiled[2]].size.y + getOuterHeight(cl[Tiled[2]]) + 5

(* C10: in the scenario the master client is at x = 5, y = 5 with width    *)
(* about 489 and height 590, and the two stack clients have width about    *)
(* 489 and height about 292 each, one below the other from y = 5 with 5    *)
(* pixels between them.                                                    *)
C10_Scenario == Scenario => \E b \in {0, 1} : ScenarioAsStated(b)

(* C10, amended: in the scenario the master client is at (5, 5) and 493 by *)
(* 588 inside its border (495 by 590 outside); the stack clients are at    *)
(* x = 505 and 488 wide (490 outside), the first at y = 5 and 290 high,    *)
(* the second at y = 302 and 291 high.                                     *)
C10_ScenarioExact ==
    Scenario =>
        /\ cl[Tiled[1]].size = Rect(5, 5, 493, 588)
        /\ cl[Tiled[2]].size = Rect(505, 5, 488, 290)
        /\ cl[Tiled[3]].size = Rect(505, 302, 488, 291)

(* The scenario, after tile was called once more on it.                    *)
C10_Witness == Scenario /\ hist.op = "retile"

-----------------------------------------------------------------------------
(* The key commands that move the focus, on up to MaxFocusClients windows  *)
(* of which the Firefox rule puts some on tag 9, out of view.  hist keeps  *)
(* the command, its argument and the world it was given.                   *)

MaxFocusClients == 4  \* windows mapped where the focus commands are examined
MaxFocusSteps == 5    \* events handled in such a run

FocusInputs == {PlainWindow,
                [PlainWindow EXCEPT !.class = "Firefox"],
                [PlainWindow EXCEPT !.fullscreen = TRUE]}

FocusViewArgs == {{}, {8}}

RunningFocus == pc = "run" /\ steps < MaxFocusSteps

Did(op, arg) == [NoHist EXCEPT !.op = op, !.arg = arg, !.before = World]

MapFocus ==
    /\ RunningFocus
    /\ \E w \in (1..MaxFocusClients) \ Managed : \E in \in FocusInputs :
         /\ \A v \in (1..MaxFocusClients) \ Managed : w <= v
         /\ Commit(manage(World, w, in), NoHist)

ViewFocus ==
    /\ RunningFocus
    /\ \E ui \in FocusViewArgs : Commit(view(World, ui), NoHist)

FocusStackKey ==
    /\ RunningFocus
    /\ \E dir \in {-1, 1} :
         Commit(focusstack(World, dir), Did("focusstack", dir))

NextFocus == MapFocus \/ ViewFocus \/ FocusStackKey

SpecFocus == Init /\ [][NextFocus]_vars

(* The world focusstack was given: its selected monitor's client list, the *)
(* position of the selected client in it, and the visible clients met when *)
(* the list is walked from just after that position round to it.           *)
Before == hist.before

ClientsBefore == Before.mons[Before.selmon].clients

SelBefore == Before.mons[Before.selmon].sel

SelPos == CHOOSE i \in 1..Len(ClientsBefore) : ClientsBefore[i] = SelBefore

VisibleBefore(q) == SelectSeq(q, LAMBDA c : isVisible(Before, c))

RoundFromSel ==
    VisibleBefore(SubSeq(ClientsBefore, SelPos + 1, Len(ClientsBefore))
                  \o SubSeq(ClientsBefore, 1, SelPos))

RoundToSel ==
    VisibleBefore(SubSeq(ClientsBefore, SelPos, Len(ClientsBefore))
                  \o SubSeq(ClientsBefore, 1, SelPos - 1))

(* focusstack was called with a selected client that fullscreen does not   *)
(* lock, and some client of the monitor is visible.                        *)
FocusStackCase(dir) ==
    /\ hist.op = "focusstack" /\ hist.arg = dir
    /\ SelBefore # NULL
    /\ ~(Before.cl[SelBefore].isFullscreen /\ lockfullscreen # 0)
    /\ VisibleBefore(ClientsBefore) # <<>>

(* C11: focusstack(+1) selects the first visible client after the selected *)
(* one in client order, going on from the start of the list when the end   *)
(* is reached; clients that are not visible are passed over.               *)
C11_FocusNext ==
    FocusStackCase(1) => mons[selmon].sel = Head(RoundFromSel)

(* C11's scenario: four clients, the first and the last visible, the first *)
(* selected; the last is selected afterwards.                              *)
C11_Witness ==
    /\ FocusStackCase(1)
    /\ Len(ClientsBefore) = 4
    /\ SelPos = 1
    /\ VisibleBefore(ClientsBefore) = <<ClientsBefore[1], ClientsBefore[4]>>
    /\ mons[selmon].sel = ClientsBefore[4]

-----------------------------------------------------------------------------
(* Screens that come and go: windows are mapped on either monitor and the  *)
(* root window is reconfigured; hist keeps the world before that.          *)

RootConfigure ==
    /\ Running
    /\ \E s \in ScreenSetups : \E ptr \in PointersOf(s.unique) :
         Commit(configurenotify(World, [w |-> s.w, h |-> s.h,
                                        unique |-> s.unique, ptr |-> ptr]),
                Did("configurenotify", Len(s.unique)))

NextGeom == MapRequest \/ FocusMon \/ RootConfigure

SpecGeom == Init /\ [][NextGeom]_vars

(* The monitors the last reconfiguration removed, the number of clients    *)
(* they held, and a removed monitor as it is when it is destroyed.         *)
Removed == (Len(mons) + 1)..Len(Before.mons)

RECURSIVE ClientCount(_)
ClientCount(ms) ==
    IF ms = {} THEN 0
    ELSE LET m == CHOOSE x \in ms : TRUE
         IN  Len(Before.mons[m].clients) + ClientCount(ms \ {m})

AtDestruction(m) ==
    IF build = "dwm" THEN moveClients(Before, m).mons[m]
    ELSE transferAllClients(Before, m).mons[m]

MonitorRemoved ==
    /\ hist.op = "configurenotify"
    /\ Len(mons) >= 1
    /\ Len(mons) < Len(Before.mons)

(* C13: when a reconfiguration removes a monitor that holds k clients and  *)
(* another monitor stays, the client list and the stack of the first       *)
(* monitor are k longer each, the removed monitor's list and stack are     *)
(* empty when it is destroyed, and every client is still managed.          *)
C13_ClientsMigrate ==
    MonitorRemoved =>
        /\ Len(mons[1].clients)
               = Len(Before.mons[1].clients) + ClientCount(Removed)
        /\ Len(mons[1].stack)
               = Len(Before.mons[1].stack) + ClientCount(Removed)
        /\ \A m \in Removed : /\ AtDestruction(m).clients = <<>>
                               /\ AtDestruction(m).stack = <<>>
        /\ DOMAIN cl = DOMAIN Before.cl
        /\ \A m \in Removed : \A c \in Range(Before.mons[m].clients) :
               c \in Range(mons[1].clients) /\ c \in Range(mons[1].stack)

(* C13's scenario: the second of two monitors held two clients.            *)
C13_Witness ==
    /\ MonitorRemoved
    /\ Len(Before.mons) = 2
    /\ Len(Before.mons[2].clients) = 2
    /\ Len(mons[1].clients) = 2
    /\ Len(mons[1].stack) = 2

-----------------------------------------------------------------------------
(* The key commands that switch tag sets and layouts, on the monitors and  *)
(* clients that map and configure requests set up; hist keeps the command, *)
(* its argument and the world it was given.                                *)

ViewKeyArgs == {{}, {0}, {1}, AllBits}
ToggleViewKeyArgs == {{0}, {1}, {0, 1}}
LayoutKeyArgs == 0..Len(layouts)

ViewKey ==
    /\ Running
    /\ \E ui \in ViewKeyArgs : Commit(view(World, ui), Did("view", ui))

ToggleViewKey ==
    /\ Running
    /\ \E ui \in ToggleViewKeyArgs :
         Commit(toggleview(World, ui), Did("toggleview", ui))

SetLayoutKey ==
    /\ Running
    /\ \E l \in LayoutKeyArgs : Commit(setlayout(World, l), Did("setlayout", l))

NextKeys ==
    \/ MapRequest \/ ConfigureRequest
    \/ ViewKey \/ ToggleViewKey \/ SetLayoutKey

SpecKeys == Init /\ [][NextKeys]_vars

(* The selected monitor before the command and after it, and the argument  *)
(* restricted to the valid tags.                                           *)
MonBefore == Before.mons[Before.selmon]

MonNow == mons[selmon]

MaskedArg == hist.arg \cap TAGMASK

(* C14: toggleview with a mask that would leave no tag in view changes     *)
(* nothing: the tag sets, the selection, the stack order and everything    *)
(* focus or arrange would have touched are as before.                      *)
C14_ToggleViewEmpty ==
    (hist.op = "toggleview" /\ Xor(getActiveTags(MonBefore), MaskedArg) = {})
        => World = Before

(* C14 is exercised where the mask is the tag set in view and a focus and  *)
(* arrange, had they run, would have changed the world.                    *)
C14_Witness ==
    /\ hist.op = "toggleview"
    /\ getActiveTags(MonBefore) = MaskedArg
    /\ MonBefore.sel # NULL
    /\ arrangeSel(focusNull(Before)) # Before

(* C15: view(t), t having a valid tag and not being the tag set in view,   *)
(* puts t in view and keeps the tag set that was in view in the other      *)
(* slot, so that view(0) brings it back; view of the tag set in view       *)
(* changes nothing.                                                        *)
C15_ViewSlots ==
    hist.op = "view" =>
        IF MaskedArg = getActiveTags(MonBefore) THEN World = Before
        ELSE MaskedArg # {} =>
                 /\ selmon = Before.selmon
                 /\ getActiveTags(MonNow) = MaskedArg
                 /\ MonNow.tagset[(1 - MonNow.seltags) + 1]
                        = getActiveTags(MonBefore)
                 /\ getActiveTags(view(World, {}).mons[selmon])
                        = getActiveTags(MonBefore)

(* C15 is exercised by a view of tag 2 from tag 1 with a client on tag 1.  *)
C15_Witness ==
    /\ hist.op = "view"
    /\ MaskedArg = {1}
    /\ getActiveTags(MonBefore) = {0}
    /\ MonBefore.sel # NULL
    /\ getActiveTags(MonNow) = {1}

(* C16: setlayout(L), L not being the active layout, makes L active and    *)
(* keeps the layout that was active in the other slot, so that the layout  *)
(* toggle brings it back; after a toggle the active slot holds a layout    *)
(* of the table.                                                           *)
C16_LayoutSlots ==
    hist.op = "setlayout" =>
        IF hist.arg = 0
        THEN /\ getActiveLayout(MonNow) \in Range(layouts)
             /\ getActiveLayout(MonNow) = MonBefore.layout[(1 - MonBefore.sellt) + 1]
        ELSE layouts[hist.arg] # getActiveLayout(MonBefore) =>
                 /\ getActiveLayout(MonNow) = layouts[hist.arg]
                 /\ MonNow.layout[(1 - MonNow.sellt) + 1]
                        = getActiveLayout(MonBefore)
                 /\ getActiveLayout(setlayout(World, 0).mons[selmon])
                        = getActiveLayout(MonBefore)

(* C16 is exercised by the monocle layout chosen over the tile layout with *)
(* a client on the monitor.                                                *)
C16_Witness ==
    /\ hist.op = "setlayout"
    /\ hist.arg = 3
    /\ getActiveLayout(MonBefore) = "tile"
    /\ MonBefore.sel # NULL
    /\ getActiveLayout(MonNow) = "monocle"
    /\ MonNow.layout[(1 - MonNow.sellt) + 1] = "tile"

-----------------------------------------------------------------------------
(* Crossing events that reach the handler late: the event queue keeps an   *)
(* EnterNotify for a client window while a key command hides the window    *)
(* (restack discards queued crossing events only when the monitor has a    *)
(* selected client).  hist keeps the client (NULL: the root window) and    *)
(* the world the handler was given.                                        *)

EnterQueued ==
    /\ Running
    /\ \/ \E c \in Managed :
            Commit(enternotify(World, c, NULL), Did("enternotify", c))
       \/ \E ptr \in PointersOf(screen.unique) :
            Commit(enternotify(World, NULL, wintomonRoot(World, ptr)),
                   Did("enternotify", NULL))

NextEnter == MapRequest \/ View \/ EnterQueued

SpecEnter == Init /\ [][NextEnter]_vars

(* enternotify got as far as its call of focus: the monitor entered was    *)
(* not the selected one, or the client entered not the selected client.    *)
FocusCalled ==
    /\ hist.op = "enternotify"
    /\ \/ selmon # Before.selmon
       \/ hist.arg # NULL /\ hist.arg # Before.mons[Before.selmon].sel

(* C17: focus(c) with c null or not visible selects the first visible      *)
(* client of the monitor's stack, and no client when none is visible.      *)
C17_FocusFallback ==
    (FocusCalled /\ (hist.arg = NULL \/ ~isVisible(Before, hist.arg))) =>
        mons[selmon].sel = FirstVisible(Before, Before.mons[selmon].stack)

-----------------------------------------------------------------------------
(* zoom, on clients that were mapped, made floating or tiled, and focused  *)
(* in turn; hist keeps the world zoom was given.                           *)

ZoomKey ==
    /\ Running
    /\ Commit(IF build = "dwm" THEN zoom(World) ELSE Monitor_zoom(World),
              Did("zoom", 0))

NextZoom == MapRequest \/ FocusStack \/ ToggleFloating \/ ZoomKey

SpecZoom == Init /\ [][NextZoom]_vars

(* The tiled clients of the selected monitor when zoom was called.         *)
TiledBefore == getTiledClients(Before, Before.selmon)

ToFront(c) == <<c>> \o Remove(MonBefore.clients, c)

ZoomCase ==
    /\ hist.op = "zoom"
    /\ HasArrange(getActiveLayout(MonBefore))
    /\ MonBefore.sel # NULL
    /\ ~Before.cl[MonBefore.sel].isFloating

(* C18: zoom under an arranging layout with a selected client that does    *)
(* not float: a selection that is not the first tiled client goes to the   *)
(* front of the client list and stays selected; for the first tiled        *)
(* client the next tiled client goes to the front and is selected; with    *)
(* no other tiled client nothing changes.                                  *)
C18_Zoom ==
    ZoomCase =>
        IF TiledBefore = <<>> \/ MonBefore.sel # Head(TiledBefore)
        THEN /\ MonNow.clients = ToFront(MonBefore.sel)
             /\ MonNow.sel = MonBefore.sel
        ELSE IF Len(TiledBefore) >= 2
        THEN /\ MonNow.clients = ToFront(TiledBefore[2])
             /\ MonNow.sel = TiledBefore[2]
        ELSE World = Before

-----------------------------------------------------------------------------
(* Client::resize, as the mouse resize and togglefloating call it, on      *)
(* clients of several size hints whose rectangle a configure request may   *)
(* have set; hist keeps the client and the world before.                   *)

(* WM_NORMAL_HINTS values: resize increments of 50 with no base or minimum *)
(* size, and an aspect ratio between 1:200 and 1:100.                      *)
IncSizeHints == [NoHints EXCEPT !.flags = {"PResizeInc"}, !.inc = <<50, 50>>]
AspectSizeHints == [NoHints EXCEPT !.flags = {"PAspect"},
                                   !.min_aspect = <<1, 200>>,
                                   !.max_aspect = <<1, 100>>]

ResizeInputs ==
    {[PlainWindow EXCEPT !.size = h, !.class = k] :
        h \in {NoHints, MinSizeHints, FixedSizeHints, IncSizeHints,
               AspectSizeHints},
        k \in {"", "Gimp"}}

(* Where the pointer is during the drag, from the window's corner.         *)
MotionOffsets == {<<0, 0>>, <<40, 40>>, <<400, 300>>}

MapResize ==
    /\ Running
    /\ \E w \in Windows \ Managed : \E in \in ResizeInputs :
         /\ \A v \in Windows \ Managed : w <= v
         /\ Commit(manage(World, w, in), NoHist)

MouseMotion ==
    /\ Running
    /\ mons[selmon].sel # NULL
    /\ ~cl[mons[selmon].sel].isFullscreen
    /\ \E d \in MotionOffsets :
         LET c == mons[selmon].sel
         IN  Commit(resizeMotion(World, c, cl[c].size.x + d[1],
                                 cl[c].size.y + d[2]),
                    Did("motion", c))

ToggleFloatingKey ==
    /\ Running
    /\ Commit(togglefloating(World), Did("togglefloating", mons[selmon].sel))

NextResize ==
    \/ MapResize \/ ConfigureRequest \/ MouseMotion \/ ToggleFloatingKey

SpecResize == Init /\ [][NextResize]_vars

(* The last handler called resize on client hist.arg: the mouse resize     *)
(* does for a client that floats or under the floating layout,             *)
(* togglefloating for a client that is not fullscreen and floats now.      *)
ResizeCalled ==
    \/ /\ hist.op = "motion"
       /\ \/ ~HasArrange(getActiveLayout(MonNow))
          \/ cl[hist.arg].isFloating
    \/ /\ hist.op = "togglefloating"
       /\ hist.arg # NULL
       /\ ~Before.cl[hist.arg].isFullscreen
       /\ cl[hist.arg].isFloating

(* C19: after a call of resize, whatever the geometry asked for and the    *)
(* client's size hints, the client's width and height are at least 1.      *)
C19_ResizeMinimum ==
    ResizeCalled => cl[hist.arg].size.w >= 1 /\ cl[hist.arg].size.h >= 1

-----------------------------------------------------------------------------
(* Windows that go away, on one or two monitors that may be reduced to one *)
(* in between; hist keeps the client and the world before.  An UnmapNotify *)
(* that a client sent itself (send_event) only sets WM_STATE.              *)

(* As Commit, but a handler that faulted leaves in hist what it was about  *)
(* to do: the program has ended and the root window's properties stay as   *)
(* they were.                                                              *)
CommitOrFault(W, h) ==
    \/ Commit(W, h)
    \/ /\ W.crashed
       /\ pc' = "crashed"
       /\ hist' = h
       /\ steps' = steps + 1
       /\ UNCHANGED <<build, mons, freed, cl, selmon, screen, active, clist,
                      motionmon, drag>>

DestroyGone ==
    /\ Running
    /\ \E c \in Managed :
         CommitOrFault(unmanage(World, c), Did("destroynotify", c))

UnmapGone ==
    /\ Running
    /\ \E c \in Managed : \E send_event \in BOOLEAN :
         CommitOrFault(IF send_event THEN World ELSE unmanage(World, c),
                       Did(IF send_event THEN "withdrawn" ELSE "unmapnotify", c))

NextGone ==
    \/ MapRequest \/ FocusMon \/ View \/ RootConfigure
    \/ DestroyGone \/ UnmapGone

SpecGone == Init /\ [][NextGone]_vars

Unmanaged == hist.op \in {"destroynotify", "unmapnotify"}

(* C20: after unmanage of a client the client is in no monitor's client    *)
(* list or stack, no monitor has it as its selected client, and the        *)
(* advertised client list holds exactly the windows of the clients that    *)
(* are still managed.                                                      *)
C20_Unmanaged ==
    Unmanaged =>
        /\ hist.arg \notin DOMAIN cl
        /\ \A m \in MonIds : /\ hist.arg \notin Range(mons[m].clients)
                              /\ hist.arg \notin Range(mons[m].stack)
                              /\ mons[m].sel # hist.arg
        /\ Range(clist) = DOMAIN Before.cl \ {hist.arg}
        /\ Range(clist) = DOMAIN cl
        /\ Len(clist) = Cardinality(DOMAIN cl)

-----------------------------------------------------------------------------
(* focus(c) on a client that is shown, as a click on the client's window   *)
(* and the pointer entering it call it, on up to MaxFocusClients windows   *)
(* of one or two monitors, some of them marked urgent by an                *)
(* _NET_ACTIVE_WINDOW message.  hist keeps the client and the world the    *)
(* handler was given.                                                      *)

UrgentFocus ==
    /\ RunningFocus
    /\ \E c \in Managed : Commit(clientmessageActive(World, c), NoHist)

ClickFocus ==
    /\ RunningFocus
    /\ \E c \in Managed : /\ isVisible(World, c)
                          /\ Commit(buttonpress(World, c), Did("buttonpress", c))

EnterFocus ==
    /\ RunningFocus
    /\ \E c \in Managed : /\ isVisible(World, c)
                          /\ Commit(enternotify(World, c, NULL),
                                    Did("enternotify", c))

NextFocusOn ==
    \/ MapFocus \/ ViewFocus \/ FocusMon
    \/ UrgentFocus \/ ClickFocus \/ EnterFocus

SpecFocusOn == Init /\ [][NextFocusOn]_vars

(* The world in which the handler called focus(c): both handlers select    *)
(* the client's monitor first, and buttonpress then focuses on it.         *)
AtFocus ==
    LET m == Before.cl[hist.arg].mon
    IN  IF m = Before.selmon THEN Before
        ELSE IF hist.op = "buttonpress"
        THEN focusNull(selectMonitor(Before, m))
        ELSE selectMonitor(Before, m)

(* The handler called focus(c) with the client c = hist.arg.               *)
FocusOnClient ==
    \/ hist.op = "buttonpress"
    \/ hist.op = "enternotify" /\ FocusCalled

(* C21: focus(c) with c visible makes c the selected client of its         *)
(* monitor and that monitor the selected one, puts c first in the          *)
(* monitor's stack, clears c's urgency flag and leaves the other entries   *)
(* of the stack in the order they had.                                     *)
C21_FocusVisible ==
    (FocusOnClient /\ isVisible(AtFocus, hist.arg)) =>
        LET c == hist.arg
            m == cl[c].mon
        IN  /\ m = selmon
            /\ m = Before.cl[c].mon
            /\ mons[m].sel = c
            /\ mons[m].stack # <<>>
            /\ Head(mons[m].stack) = c
            /\ ~cl[c].isUrgent
            /\ Remove(mons[m].stack, c) = Remove(AtFocus.mons[m].stack, c)

(* C21 is exercised by a click on the last of three clients in the stack,  *)
(* which is urgent and not selected.                                       *)
C21_Witness ==
    /\ FocusOnClient
    /\ isVisible(AtFocus, hist.arg)
    /\ Len(AtFocus.mons[cl[hist.arg].mon].stack) = 3
    /\ AtFocus.mons[cl[hist.arg].mon].stack[3] = hist.arg
    /\ AtFocus.cl[hist.arg].isUrgent
    /\ AtFocus.mons[AtFocus.selmon].sel # hist.arg
    /\ Head(mons[selmon].stack) = hist.arg
    /\ ~cl[hist.arg].isUrgent

-----------------------------------------------------------------------------
(* The key bindings and the fullscreen requests, on up to MaxFocusClients  *)
(* windows; hist keeps the command, its argument and the world before.     *)

(* keypress: the function bound to the key is called with its argument.    *)
(* A key is the name of the function and the argument.                     *)
keypress(W, key) ==
    CASE key.op = "focusstack" -> focusstack(W, key.arg)
      [] key.op = "zoom" -> (IF build = "dwm" THEN zoom(W) ELSE Monitor_zoom(W))
      [] key.op = "view" -> view(W, key.arg)
      [] key.op = "toggleview" -> toggleview(W, key.arg)
      [] key.op = "tag" -> tag(W, key.arg)
      [] key.op = "toggletag" -> toggletag(W, key.arg)
      [] key.op = "setlayout" -> setlayout(W, key.arg)
      [] key.op = "togglefloating" -> togglefloating(W)
      [] key.op = "focusmon" -> focusmon(W, key.arg)
      [] key.op = "tagmon" -> tagmon(W, key.arg)

(* The bindings of the table that are examined: the tag keys of tag 2, the *)
(* view of tag 9 and of the previous tags, the layout keys, and the keys   *)
(* that take a direction.                                                  *)
Keys ==
    {[op |-> "focusstack", arg |-> d] : d \in {-1, 1}}
    \cup {[op |-> o, arg |-> 1] : o \in {"focusmon", "tagmon"}}
    \cup {[op |-> o, arg |-> {1}] : o \in {"view", "toggleview", "tag", "toggletag"}}
    \cup {[op |-> "view", arg |-> {}], [op |-> "view", arg |-> {8}],
          [op |-> "tag", arg |-> AllBits]}
    \cup {[op |-> "setlayout", arg |-> l] : l \in 0..Len(layouts)}
    \cup {[op |-> "zoom", arg |-> 0], [op |-> "togglefloating", arg |-> 0]}

KeyPress ==
    /\ Running
    /\ \E key \in Keys : Commit(keypress(World, key), Did(key.op, key.arg))

FullscreenMessage ==
    /\ Running
    /\ \E c \in Managed : \E action \in 0..2 :
         Commit(clientmessageState(World, c, action), Did("fullscreen", c))

NextOrder == MapFocus \/ KeyPress \/ FullscreenMessage \/ ClickFocus

SpecOrder == Init /\ [][NextOrder]_vars

(* The commands that are said to leave the client lists alone, and the     *)
(* clients of a list that were in the same monitor's list before.          *)
OrderKeeping ==
    {"buttonpress", "focusstack", "view", "toggleview", "tag", "toggletag",
     "setlayout", "togglefloating", "fullscreen"}

Stayed(m) ==
    IF m \in 1..Len(Before.mons)
    THEN Range(mons[m].clients) \cap Range(Before.mons[m].clients) ELSE {}

-----------------------------------------------------------------------------
(* The layout symbol under the monocle layout, in the runs of SpecKeys:    *)
(* windows that tile or float are mapped and the tag keys and layout keys  *)
(* arrange the selected monitor.                                           *)

(* The last command arranged the selected monitor with monocle: the layout *)
(* keys do when the monitor has a selected client, the tag keys when the   *)
(* tags in view change.                                                    *)
MonocleRan ==
    /\ getActiveLayout(MonNow) = "monocle"
    /\ \/ hist.op = "setlayout" /\ MonBefore.sel # NULL
       \/ hist.op = "view" /\ MaskedArg # getActiveTags(MonBefore)
       \/ hist.op = "toggleview"
            /\ Xor(getActiveTags(MonBefore), MaskedArg) # {}

VisibleCount == Len(SelectSeq(MonNow.clients, LAMBDA c : isVisible(World, c)))

VisibleTiledCount == Len(getTiledClients(World, selmon))

(* C23 as stated: after monocle the symbol is "[n]", n being the number of *)
(* visible clients that do not float, and the symbol of the layout table   *)
(* when there is no such client.                                           *)
C23_MonocleSymbolTiled ==
    MonocleRan =>
        MonNow.ltsymbol = IF VisibleTiledCount > 0
                          THEN <<"[%d]", VisibleTiledCount>>
                          ELSE LayoutSymbol("monocle")

(* C23, amended: n is the number of visible clients of the monitor,        *)
(* floating ones included; with no visible client the symbol stays the     *)
(* one of the layout table.                                                *)
C23_MonocleSymbol ==
    MonocleRan =>
        MonNow.ltsymbol = IF VisibleCount > 0
                          THEN <<"[%d]", VisibleCount>>
                          ELSE LayoutSymbol("monocle")

(* C23 is exercised with a tiled and a floating client in view.            *)
C23_Witness ==
    /\ MonocleRan
    /\ VisibleCount = 2
    /\ VisibleTiledCount = 1
    /\ MonNow.ltsymbol = <<"[%d]", 2>>

-----------------------------------------------------------------------------
(* Configure requests that ask for a position, on clients of several size  *)
(* hints that tile or float, under the layouts of the table.  A request    *)
(* stores the geometry asked for; the next arrange of the monitor calls    *)
(* resize, not interactive, on every client that is shown and floats or    *)
(* has no arranging layout.  hist keeps the command and the world before.  *)

(* Requests, relative to the monitor: partly off the left and top edges,   *)
(* reaching over the right and bottom edges, placed beyond them, wholly    *)
(* off the left and top edges; and a border width.                         *)
PlaceEvents ==
    {[mask |-> {"X", "Y", "W", "H"}, x |-> -200, y |-> -100, w |-> 300,
      h |-> 200, bw |-> 0],
     [mask |-> {"X", "Y", "W", "H"}, x |-> 900, y |-> 500, w |-> 300,
      h |-> 200, bw |-> 0],
     [mask |-> {"X", "Y"}, x |-> 1200, y |-> 700, w |-> 0, h |-> 0, bw |-> 0],
     [mask |-> {"X", "Y", "W", "H"}, x |-> -400, y |-> -300, w |-> 300,
      h |-> 200, bw |-> 0],
     [mask |-> {"BW"}, x |-> 0, y |-> 0, w |-> 0, h |-> 0, bw |-> 3]}

ConfigurePlace ==
    /\ Running
    /\ \E c \in Managed : \E ev \in PlaceEvents :
         Commit(handleConfigurationRequest(World, c, ev),
                Did("configurerequest", c))

NextConfigure ==
    \/ MapResize \/ ConfigurePlace \/ ToggleFloatingKey \/ SetLayoutKey
    \/ FocusMon

SpecConfigure == Init /\ [][NextConfigure]_vars

(* togglefloating arranged the selected monitor, and the clients that      *)
(* arrange resized with their own rectangle: shown, not fullscreen, and    *)
(* floating or under the floating layout.  Asked(c) is the rectangle       *)
(* resize was called with.                                                 *)
Arranged == hist.op = "togglefloating" /\ hist.arg # NULL

AtArrange == toggleFloating(Before, hist.arg)

Asked(c) == AtArrange.cl[c].size

SelfResized ==
    {c \in Range(MonNow.stack) :
        /\ isVisible(World, c)
        /\ ~cl[c].isFullscreen
        /\ cl[c].isFloating \/ ~HasArrange(getActiveLayout(MonNow))}

(* C24 as stated: after a resize that is not interactive the client's      *)
(* rectangle lies inside the usable rectangle of its monitor.              *)
C24_ResizeInside ==
    Arranged =>
        \A c \in SelfResized :
            /\ cl[c].size.x >= MonNow.wRect.x
            /\ cl[c].size.y >= MonNow.wRect.y
            /\ cl[c].size.x + cl[c].size.w <= MonNow.wRect.x + MonNow.wRect.w
            /\ cl[c].size.y + cl[c].size.h <= MonNow.wRect.y + MonNow.wRect.h

(* C24, amended: after a resize that is not interactive the client does    *)
(* not start beyond the right or the bottom edge of the usable rectangle,  *)
(* and the rectangle asked for (at least 1x1, with the border), put where  *)
(* the client is now, ends after the left and the top edge.                *)
C24_ResizeOverlaps ==
    Arranged =>
        \A c \in SelfResized :
            /\ cl[c].size.x <= MonNow.wRect.x + MonNow.wRect.w
            /\ cl[c].size.y <= MonNow.wRect.y + MonNow.wRect.h
            /\ cl[c].size.x + Max(1, Asked(c).w) + 2 * cl[c].bw > MonNow.wRect.x
            /\ cl[c].size.y + Max(1, Asked(c).h) + 2 * cl[c].bw > MonNow.wRect.y

(* C24 is exercised by a client that a request had placed beyond the right *)
(* edge and resize brings back, and by one left partly off the left edge.  *)
C24_Witness ==
    /\ Arranged
    /\ \E c \in SelfResized :
          /\ Before.cl[c].size.x >= MonNow.wRect.x + MonNow.wRect.w
          /\ cl[c].size.x < MonNow.wRect.x + MonNow.wRect.w

-----------------------------------------------------------------------------
-----------------------------------------------------------------------------
(* Moving and resizing a client with the mouse.  A click with the modifier *)
(* on a client window focuses the client and enters the loop of            *)
(* moveWithMouse or resizeWithMouse, which takes motion events and the     *)
(* button release itself and hands configure requests, exposures and map   *)
(* requests to their handlers.  hist keeps the event and the world before. *)

MaxDragSteps == 5     \* events handled in a run with a mouse move or resize

Dragging == pc = "drag" /\ steps < MaxDragSteps

(* As Commit, for a step that enters, stays in or leaves the loop: p is    *)
(* the position afterwards and d the loop's locals.                        *)
CommitDrag(W, h, p, d) ==
    \/ /\ ~W.crashed
       /\ mons' = W.mons
       /\ freed' = Collect(W)
       /\ cl' = W.cl
       /\ selmon' = W.selmon
       /\ screen' = W.screen
       /\ active' = W.active
       /\ clist' = W.clist
       /\ motionmon' = W.motionmon
       /\ pc' = p
       /\ drag' = d
       /\ hist' = h
       /\ steps' = steps + 1
       /\ UNCHANGED build
    \/ /\ W.crashed \/ Stale(World)
       /\ pc' = "crashed"
       /\ hist' = NoHist
       /\ steps' = steps + 1
       /\ UNCHANGED <<build, mons, freed, cl, selmon, screen, active, clist,
                      motionmon, drag>>

(* The locals when the loop is entered for client c of world W: a move     *)
(* keeps where the pointer is (here: 10 pixels into the window), a resize  *)
(* warps the pointer to the lower right corner first.                      *)
dragLocals(W, c, kind) ==
    LET C == W.cl[c]
    IN  [kind |-> kind, c |-> c, ox |-> C.size.x, oy |-> C.size.y,
         px |-> IF kind = "move" THEN C.size.x + 10
                ELSE C.size.x + C.size.w + 2 * C.bw - 1,
         py |-> IF kind = "move" THEN C.size.y + 10
                ELSE C.size.y + C.size.h + 2 * C.bw - 1]

(* buttonpress on a client window with the modifier held: focus, then      *)
(* movemouse or resizemouse on the selected client.                        *)
StartDrag ==
    /\ Running
    /\ \E c \in Managed : \E kind \in {"move", "resize"} :
         /\ isVisible(World, c)
         /\ LET W   == buttonpress(World, c)
                sel == IF W.crashed THEN NULL ELSE W.mons[W.selmon].sel
            IN  IF sel = NULL THEN Commit(W, NoHist)
                ELSE IF W.cl[sel].isFullscreen THEN Commit(W, NoHist)
                ELSE CommitDrag(W, Did("startdrag", sel), "drag",
                                dragLocals(W, sel, kind))

(* How far the pointer is from where it was when the loop was entered.     *)
DragDeltas == {<<10, 10>>, <<40, 40>>, <<-40, -40>>, <<1000, 0>>}

(* MotionNotify inside the loop, the pointer being at ev on the screen.    *)
dragMotion(W, d, ev) ==
    IF d.kind = "move"
    THEN moveMotion(W, d.c, d.ox + (ev.x - d.px), d.oy + (ev.y - d.py))
    ELSE resizeMotionTo(W, d.c,
                        Max(ev.x - d.ox - 2 * W.cl[d.c].bw + 1, 1),
                        Max(ev.y - d.oy - 2 * W.cl[d.c].bw + 1, 1))

DragMotion ==
    /\ Dragging
    /\ \E dl \in DragDeltas :
         LET ev == [x |-> drag.px + dl[1], y |-> drag.py + dl[2]]
         IN  /\ ev.x >= 0 /\ ev.x < screen.w
             /\ ev.y >= 0 /\ ev.y < screen.h
             /\ CommitDrag(dragMotion(World, drag, ev), Did("dragmotion", ev),
                           "drag", drag)

(* The events the loop hands to handleXEvent.                              *)
DragMapInputs == {PlainWindow, [PlainWindow EXCEPT !.class = "Gimp"]}

DragMapRequest ==
    /\ Dragging
    /\ \E w \in Windows \ Managed : \E in \in DragMapInputs :
         /\ \A v \in Windows \ Managed : w <= v
         /\ CommitDrag(manage(World, w, in), Did("maprequest", w), "drag", drag)

DragConfigureRequest ==
    /\ Dragging
    /\ \E c \in Managed : \E ev \in ConfigureEvents :
         CommitDrag(handleConfigurationRequest(World, c, ev),
                    Did("configurerequest", c), "drag", drag)

(* An exposure that ends the loop as a button release does.                 *)
DragExpose_ends ==
    /\ Dragging
    /\ CommitDrag(World, Did("expose", 0), "run", NoDrag)

DragExpose ==
    /\ Dragging
    /\ CommitDrag(World, Did("expose", 0), "drag", drag)

(* ButtonRelease ends the loop.                                            *)
DragRelease ==
    /\ Dragging
    /\ CommitDrag(dragRelease(World, drag.c), Did("release", drag.c), "run",
                  NoDrag)

NextDrag ==
    \/ MapRequest \/ FocusMon \/ StartDrag
    \/ DragMotion \/ DragMapRequest \/ DragConfigureRequest \/ DragExpose
    \/ DragRelease

SpecDrag == Init /\ [][NextDrag]_vars

(* The position or size the last motion event asked for, as the loop       *)
(* computes it, and whether it is more than snap away from the dragged     *)
(* client's (a size also has to fit the selected monitor's window area:    *)
(* the loop resizes to no other).                                          *)
DragSel == Before.mons[Before.selmon]

DragAsked ==
    LET C == Before.cl[drag.c]
    IN  IF drag.kind = "move"
        THEN <<snapToEdge(drag.ox + (hist.arg.x - drag.px), getOuterWidth(C),
                          DragSel.wRect.x, DragSel.wRect.w, DragSel.gappx),
               snapToEdge(drag.oy + (hist.arg.y - drag.py), getOuterHeight(C),
                          DragSel.wRect.y, DragSel.wRect.h, DragSel.gappx)>>
        ELSE <<Max(hist.arg.x - drag.ox - 2 * C.bw + 1, 1),
               Max(hist.arg.y - drag.oy - 2 * C.bw + 1, 1)>>

BeyondSnap ==
    LET C == Before.cl[drag.c]
        M == MonOf(Before, drag.c)
        a == DragAsked
    IN  IF drag.kind = "move"
        THEN Abs(a[1] - C.size.x) > snap \/ Abs(a[2] - C.size.y) > snap
        ELSE /\ M.wRect.x + a[1] >= DragSel.wRect.x
             /\ M.wRect.x + a[1] <= DragSel.wRect.x + DragSel.wRect.w
             /\ M.wRect.y + a[2] >= DragSel.wRect.y
             /\ M.wRect.y + a[2] <= DragSel.wRect.y + DragSel.wRect.h
             /\ Abs(a[1] - C.size.w) > snap \/ Abs(a[2] - C.size.h) > snap

TiledDragMoved ==
    /\ hist.op = "dragmotion"
    /\ ~Before.cl[drag.c].isFloating
    /\ HasArrange(getActiveLayout(DragSel))
    /\ BeyondSnap

(* C26: a motion event of a mouse move or resize that asks for more than   *)
(* snap while the dragged client is tiled under an arranging layout makes  *)
(* the dragged client floating and changes the floating flag of no other   *)
(* client, whatever configure requests, exposures and map requests the     *)
(* loop has handled.                                                       *)
C26_DragFloats ==
    TiledDragMoved =>
        /\ cl[drag.c].isFloating
        /\ \A d \in (DOMAIN Before.cl) \ {drag.c} :
               cl[d].isFloating = Before.cl[d].isFloating

-----------------------------------------------------------------------------
(* The button release, in the runs of SpecDrag.  Overlap(m) is the area    *)
(* the released client's rectangle shares with the window area of monitor  *)
(* m, and Landed the first monitor for which it is largest and positive    *)
(* (the selected monitor when the rectangle is on none).                   *)
Overlap(m) == getIntersection(Before.cl[hist.arg].size, Before.mons[m].wRect)

Landed ==
    IF \A m \in 1..Len(Before.mons) : Overlap(m) = 0 THEN Before.selmon
    ELSE CHOOSE m \in 1..Len(Before.mons) :
             /\ \A k \in 1..Len(Before.mons) : Overlap(k) <= Overlap(m)
             /\ \A k \in 1..(m - 1) : Overlap(k) < Overlap(m)

(* C27: when the button is released and the monitor the client's           *)
(* rectangle overlaps most is not the selected monitor, the client is on   *)
(* that monitor's lists and on no other's, and that monitor is selected;   *)
(* otherwise the release changes nothing.                                  *)
C27_ReleaseTransfers ==
    hist.op = "release" =>
        IF Landed # Before.selmon
        THEN /\ selmon = Landed
             /\ cl[hist.arg].mon = Landed
             /\ \A m \in MonIds :
                    /\ hist.arg \in Range(mons[m].clients) <=> m = Landed
                    /\ hist.arg \in Range(mons[m].stack) <=> m = Landed
        ELSE World = Before

(* C27 is exercised by a client of the first monitor released over the     *)
(* second.                                                                 *)
C27_Witness ==
    /\ hist.op = "release"
    /\ Before.selmon = 1
    /\ Before.cl[hist.arg].mon = 1
    /\ Landed = 2
    /\ selmon = 2
    /\ cl[hist.arg].mon = 2

-----------------------------------------------------------------------------
(* Outputs that are cloned, plugged in and unplugged: the root window is   *)
(* reconfigured and Xinerama answers with one rectangle per output, the    *)
(* same rectangle for outputs that show the same area.                     *)
ThirdScreen == Rect(2000, 0, 1000, 600)

XineramaAnswers ==
    {OneScreen, OneScreen \o OneScreen, TwoScreens, OneScreen \o TwoScreens,
     TwoScreens \o OneScreen, TwoScreens \o TwoScreens,
     TwoScreens \o <<ThirdScreen>>, TwoScreens \o <<ThirdScreen, ThirdScreen>>}

(* The root window covers all outputs.                                     *)
RootWidth(info) ==
    CHOOSE w \in {info[i].x + info[i].w : i \in 1..Len(info)} :
        \A i \in 1..Len(info) : info[i].x + info[i].w <= w

OutputsChange ==
    /\ Running
    /\ \E info \in XineramaAnswers : \E ptr \in PointersOf(info) :
         Commit(configurenotify(World, [w |-> RootWidth(info), h |-> 600,
                                        unique |-> uniqueGeometries(info),
                                        ptr |-> ptr]),
                Did("outputs", info))

NextOutputs == MapRequest \/ FocusMon \/ OutputsChange

SpecOutputs == Init /\ [][NextOutputs]_vars

(* C28: after the monitors are reconciled with a Xinerama answer that has  *)
(* k distinct rectangles there are k monitors, and the selected monitor is *)
(* one of them.                                                            *)
C28_MonitorCount ==
    hist.op = "outputs" =>
        /\ Len(mons) = Cardinality(Range(hist.arg))
        /\ selmon \in 1..Len(mons)

(* C28 is exercised where two cloned outputs are left and the selected     *)
(* monitor was another one.                                                *)
C28_Witness ==
    /\ hist.op = "outputs"
    /\ Len(hist.arg) = 2
    /\ Cardinality(Range(hist.arg)) = 1
    /\ Before.selmon > 1
    /\ Len(mons) = 1
    /\ selmon = 1

-----------------------------------------------------------------------------
(* The pointer moving over the root window.  hist.arg keeps the monitor    *)
(* under the pointer at this event and, when the event before was a root   *)
(* motion too, at that one.                                                *)
RootMotion ==
    /\ Running
    /\ \E ptr \in PointersOf(screen.unique) :
         Commit(motionnotify(World, ptr),
                Did("motionnotify",
                    [prev |-> IF hist.op = "motionnotify" THEN hist.arg.now
                              ELSE NULL,
                     now |-> wintomonRoot(World, ptr)]))

NextMotion == MapRequest \/ FocusMon \/ RootMotion

SpecMotion == Init /\ [][NextMotion]_vars

(* C29: a root motion event over another monitor than the root motion      *)
(* event before it selects that monitor and focuses the first visible      *)
(* client of its stack; one over the same monitor changes nothing.         *)
C29_MotionSelects ==
    (hist.op = "motionnotify" /\ hist.arg.prev # NULL) =>
        IF hist.arg.now # hist.arg.prev
        THEN /\ selmon = hist.arg.now
             /\ mons[selmon].sel = FirstVisible(World, mons[selmon].stack)
        ELSE World = Before

-----------------------------------------------------------------------------
(* Quitting.  pc is "stopped" once quit has cleared running and control is *)
(* back at the test of the loop of run, and "done" when cleanup returned.  *)

(* while (m->stack) unmanage(m->stack, false)                              *)
RECURSIVE unmanageStack(_, _)
unmanageStack(W, m) ==
    IF W.crashed \/ W.mons[m].stack = <<>> THEN W
    ELSE unmanageStack(unmanage(W, Head(W.mons[m].stack)), m)

RECURSIVE unmanageFrom(_, _)
unmanageFrom(W, m) ==
    IF m > Len(W.mons) THEN W ELSE unmanageFrom(unmanageStack(W, m), m + 1)

(* The part of cleanup with the loop over the selected monitor only.       *)
cleanupClients_selectedOnly(W) ==
    LET W1 == view(W, AllBits)
        M  == W1.mons[W1.selmon]
    IN  unmanageStack([W1 EXCEPT !.mons[W1.selmon].layout[M.sellt + 1] = "empty"],
                      W1.selmon)

(* cleanup of src/dwm.cpp up to the loop that destroys the monitors.       *)
cleanupClients(W) ==
    LET W1 == view(W, AllBits)
        M  == W1.mons[W1.selmon]
    IN  unmanageFrom([W1 EXCEPT !.mons[W1.selmon].layout[M.sellt + 1] = "empty"],
                     1)

(* The loop of Monitor::~Monitor: the first client of the stack is         *)
(* detached and its window released, until the stack is empty.             *)
RECURSIVE detachAll(_, _)
detachAll(W, m) ==
    IF W.crashed \/ W.mons[m].stack = <<>> THEN W
    ELSE LET c == Head(W.mons[m].stack)
         IN  IF ~Listed(W, m, c) THEN [W EXCEPT !.crashed = TRUE]
             ELSE detachAll([Forget(Monitor_detach(W, m, c), c)
                                EXCEPT !.active = NULL], m)

(* allMonitors.clear(): the destructors run from the first monitor on.     *)
RECURSIVE destroyFrom(_, _)
destroyFrom(W, m) ==
    IF m > Len(W.mons) THEN W
    ELSE LET M == W.mons[m]
         IN  destroyFrom(
                 detachAll([W EXCEPT !.mons[m].layout[M.seltags + 1] = "empty"], m),
                 m + 1)

(* cleanup, up to the point where the last monitor is about to be freed:   *)
(* the monitors of the result are as they are when they are destroyed.     *)
cleanup(W) ==
    IF build = "dwm" THEN cleanupClients(W) ELSE destroyFrom(view(W, AllBits), 1)

(* MODKEY+Shift+q.                                                         *)
QuitKey ==
    /\ pc = "run"
    /\ pc' = "stopped"
    /\ hist' = Did("quit", 0)
    /\ steps' = steps + 1
    /\ UNCHANGED <<build, mons, freed, cl, selmon, screen, active, clist,
                   motionmon, drag>>

(* run returns and main calls cleanup; hist.arg keeps the monitors as they *)
(* were destroyed.                                                         *)
Cleanup ==
    /\ pc = "stopped"
    /\ \E W \in {cleanup(World)} :
         /\ pc' = IF W.crashed THEN "crashed" ELSE "done"
         /\ mons' = <<>>
         /\ freed' = <<>>
         /\ cl' = W.cl
         /\ clist' = W.clist
         /\ active' = W.active
         /\ hist' = Did("cleanup", W.mons)
    /\ steps' = steps + 1
    /\ UNCHANGED <<build, selmon, screen, motionmon, drag>>

NextQuit == MapRequest \/ FocusMon \/ QuitKey \/ Cleanup

(* The steps that take control out of run and through cleanup; of the      *)
(* steps of NextQuit these are the Cleanup steps.                          *)
RunReturns == pc = "stopped" /\ pc' \in {"done", "crashed"}

(* main calls cleanup as soon as run returns: the program does not stay at *)
(* the test of the loop.                                                   *)
SpecQuit == Init /\ [][NextQuit]_vars /\ WF_pc(RunReturns)

(* C30: once quit has run the only step left is cleanup, which is taken    *)
(* and ends the program; when the monitors are destroyed the client list   *)
(* and the stack of each are empty and no client is left.                  *)
C30_QuitCleansUp ==
    /\ [][pc = "stopped" => hist'.op = "cleanup"]_vars
    /\ [](pc = "stopped" => <>(pc = "done"))
    /\ [](hist.op = "cleanup" =>
             /\ \A m \in 1..Len(hist.arg) : /\ hist.arg[m].clients = <<>>
                                            /\ hist.arg[m].stack = <<>>
             /\ DOMAIN cl = {})

(* C30 is exercised where both monitors hold clients when quit runs.       *)
C30_Witness ==
    /\ hist.op = "cleanup"
    /\ pc = "done"
    /\ Len(hist.arg) = 2
    /\ \A m \in 1..2 : Len(Before.mons[m].clients) >= 1

-----------------------------------------------------------------------------
(* The active-window property.  Windows are mapped and destroyed, among    *)
(* them windows whose WM_HINTS say that they take no input focus.          *)
NoInputWindow == [PlainWindow EXCEPT !.wmhints = "noinput"]

ActiveInputs == {PlainWindow, NoInputWindow}

MapActive ==
    /\ Running
    /\ \E w \in Windows \ Managed : \E in \in ActiveInputs :
         /\ \A v \in Windows \ Managed : w <= v
         /\ Commit(manage(World, w, in), Did("maprequest", w))

NextActive == MapActive \/ DestroyNotify \/ FocusMon \/ FocusStackKey

SpecActive == Init /\ [][NextActive]_vars

(* C31: after every handled event _NET_ACTIVE_WINDOW is deleted or holds   *)
(* the window of the selected client of the selected monitor, so it is     *)
(* deleted when no client is selected and never holds an unmanaged window. *)
C31_ActiveWindow ==
    pc = "run" =>
        /\ active \in {NULL, mons[selmon].sel}
        /\ active \in {NULL} \cup Managed

-----------------------------------------------------------------------------
(* Map requests for any window, managed or not, on one or two monitors     *)
(* that come and go.                                                       *)
MapAgainInputs == {PlainWindow, [PlainWindow EXCEPT !.class = "Firefox"]}

MapAgain ==
    /\ Running
    /\ \E w \in Windows : \E in \in MapAgainInputs :
         Commit(maprequest(World, w, in), Did("maprequest", w))

NextMap == MapAgain \/ FocusMon \/ DestroyNotify \/ RootConfigure

SpecMap == Init /\ [][NextMap]_vars

(* The windows in the client lists and in the stacks of all monitors.      *)
RECURSIVE StacksFrom(_)
StacksFrom(m) ==
    IF m > Len(mons) THEN <<>> ELSE mons[m].stack \o StacksFrom(m + 1)

NoDuplicate(seq) == Cardinality(Range(seq)) = Len(seq)

(* C32: no window is twice in the client lists or in the stacks of the     *)
(* monitors, and a map request for a managed window changes nothing.       *)
C32_UniqueWindows ==
    /\ NoDuplicate(ClientsFrom(World, 1))
    /\ NoDuplicate(StacksFrom(1))
    /\ (hist.op = "maprequest" /\ pc = "run" /\ hist.arg \in DOMAIN Before.cl)
           => World = Before

(* C32 is exercised by a map request for a window that is managed on the   *)
(* monitor that is not selected.                                           *)
C32_Witness ==
    /\ hist.op = "maprequest"
    /\ pc = "run"
    /\ hist.arg \in DOMAIN Before.cl
    /\ Len(mons) = 2
    /\ cl[hist.arg].mon # selmon

-----------------------------------------------------------------------------
(* view and toggleview with arguments of every kind: no bit, bits of the   *)
(* tag mask, bits outside it, both, and all bits.                          *)
AnyTagArgs == {{}, {0}, {1}, {0, 1}, {NumTags - 1}, {NumTags}, {0, NumTags},
               {UIntBits - 1}, TAGMASK, AllBits}

ViewAny ==
    /\ Running
    /\ \E ui \in AnyTagArgs : Commit(view(World, ui), Did("view", ui))

ToggleViewAny ==
    /\ Running
    /\ \E ui \in AnyTagArgs : Commit(toggleview(World, ui), Did("toggleview", ui))

NextTags == ViewAny \/ ToggleViewAny \/ MapAgain \/ FocusMon \/ RootConfigure

SpecTags == Init /\ [][NextTags]_vars

(* C33: both tag slots of every monitor hold at least one tag and no bit   *)
(* outside the tag mask.                                                   *)
C33_TagSlots ==
    \A m \in MonIds : \A i \in 1..2 :
        /\ mons[m].tagset[i] # {}
        /\ mons[m].tagset[i] \subseteq TAGMASK

(* C33 is exercised where view was called with a tag and a bit outside the *)
(* mask and has switched to the other slot.                                *)
C33_Witness ==
    /\ hist.op = "view"
    /\ hist.arg = {0, NumTags}
    /\ mons[selmon].seltags # Before.mons[Before.selmon].seltags
    /\ getActiveTags(mons[selmon]) = {0}
    /\ mons[selmon].tagset[2 - mons[selmon].seltags] = {1}

-----------------------------------------------------------------------------
-----------------------------------------------------------------------------
(* Fullscreen clients: windows are mapped fullscreen or made fullscreen by *)
(* a client message, and then meet configure requests, arranging, tagmon   *)
(* and screens that come and go.                                           *)
NextFull ==
    \/ MapFocus \/ FullscreenMessage \/ ConfigurePlace \/ TagMon \/ FocusMon
    \/ SetLayoutKey \/ RootConfigure

SpecFull == Init /\ [][NextFull]_vars

(* C35: a fullscreen client has border width 0 and the screen rectangle of *)
(* the monitor it belongs to.                                              *)
C35_FullscreenGeometry ==
    pc = "run" =>
        \A c \in Managed :
            (cl[c].isFullscreen /\ ~Dangling(World, c)) =>
                /\ cl[c].bw = 0
                /\ cl[c].size = mons[cl[c].mon].sRect

-----------------------------------------------------------------------------
(* Fullscreen and floating: windows of every kind are mapped, and then     *)
(* meet togglefloating, fullscreen client messages and property changes.   *)
NextFloat ==
    \/ MapRequest \/ FullscreenMessage \/ ToggleFloatingKey \/ FocusStack
    \/ PropertyTransient \/ PropertyNormalHints \/ PropertyWindowType

SpecFloat == Init /\ [][NextFloat]_vars

(* C36: every fullscreen client is floating, and togglefloating with a     *)
(* fullscreen client selected leaves that client as it was.                *)
C36_FullscreenFloats ==
    pc = "run" =>
        /\ \A c \in Managed : cl[c].isFullscreen => cl[c].isFloating
        /\ (/\ hist.op = "togglefloating"
            /\ hist.arg # NULL
            /\ Before.cl[hist.arg].isFullscreen)
               => cl[hist.arg] = Before.cl[hist.arg]

-----------------------------------------------------------------------------
(* sendmon, called as tagmon and the mouse loops call it, for the selected *)
(* client, and for every monitor, the client's own included.               *)
SendSel ==
    /\ RunningFocus
    /\ mons[selmon].sel # NULL
    /\ \E m \in MonIds :
         Commit(sendmon(World, mons[selmon].sel, m),
                Did("sendmon", <<mons[selmon].sel, m>>))

NextSend == MapFocus \/ ViewFocus \/ FocusMon \/ FocusStackKey \/ SendSel

SpecSend == Init /\ [][NextSend]_vars

SentClient == hist.arg[1]

SentTo == hist.arg[2]

SentFrom == Before.cl[SentClient].mon

(* C37: sendmon(c, m) for another monitor than c's takes c out of the      *)
(* client list and the stack of its monitor, puts it into both of m, gives *)
(* it the active tags of m, and leaves every other client's monitor, list  *)
(* membership and tags alone; for c's own monitor it changes nothing.      *)
C37_SendMon ==
    (hist.op = "sendmon" /\ pc = "run") =>
        IF SentTo = SentFrom THEN World = Before
        ELSE /\ SentClient \notin Range(mons[SentFrom].clients)
             /\ SentClient \notin Range(mons[SentFrom].stack)
             /\ SentClient \in Range(mons[SentTo].clients)
             /\ SentClient \in Range(mons[SentTo].stack)
             /\ cl[SentClient].mon = SentTo
             /\ cl[SentClient].tags = getActiveTags(Before.mons[SentTo])
             /\ isVisible(World, SentClient)
             /\ \A d \in Managed \ {SentClient} :
                    /\ cl[d].mon = Before.cl[d].mon
                    /\ cl[d].tags = Before.cl[d].tags
                    /\ \A k \in MonIds :
                          /\ d \in Range(mons[k].clients)
                                <=> d \in Range(Before.mons[k].clients)
                          /\ d \in Range(mons[k].stack)
                                <=> d \in Range(Before.mons[k].stack)

(* C37 is exercised by a client on tag 9 that is sent to a monitor showing *)
(* tag 1 while another client stays behind.                                *)
C37_Witness ==
    /\ hist.op = "sendmon"
    /\ pc = "run"
    /\ SentTo # SentFrom
    /\ Before.cl[SentClient].tags # cl[SentClient].tags
    /\ Len(mons[SentFrom].clients) >= 1

(* ... and by a client sent to the monitor it is on.                       *)
C37_WitnessSame ==
    /\ hist.op = "sendmon"
    /\ pc = "run"
    /\ SentTo = SentFrom

-----------------------------------------------------------------------------
(* focusstack called time after time: each call is recorded together with  *)
(* the direction of the call handled just before it, when that was a       *)
(* focusstack too, and with the client selected before that call.          *)
NoCall == [dir |-> 0, sel |-> NULL]

FocusStackTwice ==
    /\ RunningFocus
    /\ \E dir \in {-1, 1} :
         Commit(focusstack(World, dir),
                Did("focusstack twice",
                    [dir  |-> dir,
                     prev |-> IF hist.op = "focusstack twice"
                              THEN [dir |-> hist.arg.dir, sel |-> SelBefore]
                              ELSE NoCall]))

NextTwice == MapFocus \/ ViewFocus \/ FocusStackTwice

SpecTwice == Init /\ [][NextTwice]_vars

(* Two calls in opposite directions with nothing between them, the first   *)
(* of which changed the selection.                                         *)
ThereAndBack ==
    /\ hist.op = "focusstack twice"
    /\ pc = "run"
    /\ hist.arg.prev.dir = 0 - hist.arg.dir
    /\ hist.arg.prev.sel # SelBefore

(* C38 as stated: focusstack in one direction, when it changed the         *)
(* selection, followed at once by focusstack in the other direction        *)
(* selects the client that was selected at first.                          *)
C38_RoundTrip ==
    ThereAndBack => mons[selmon].sel = hist.arg.prev.sel

(* C38, amended: the same where the client the first call selected is not  *)
(* a fullscreen client, which lockfullscreen keeps selected.               *)
C38_RoundTripUnlocked ==
    (ThereAndBack /\ ~(Before.cl[SelBefore].isFullscreen /\ lockfullscreen # 0))
        => mons[selmon].sel = hist.arg.prev.sel

(* C38 is exercised with three visible clients, from the first of the list *)
(* back to the last and forth again.                                       *)
C38_Witness ==
    /\ ThereAndBack
    /\ hist.arg.dir = 1
    /\ Len(VisibleBefore(ClientsBefore)) = 3
    /\ SelBefore = ClientsBefore[Len(ClientsBefore)]
    /\ mons[selmon].sel = Head(ClientsBefore)
    /\ mons[selmon].sel = hist.arg.prev.sel

-----------------------------------------------------------------------------
(* The mouse loops beside the events that unmanage a client.  XMaskEvent   *)
(* in the loops waits for button, motion, exposure and substructure        *)
(* redirect events only, so DestroyNotify and UnmapNotify are handled by   *)
(* run() alone.                                                            *)
NextLoop ==
    \/ MapRequest \/ FocusMon \/ DestroyNotify \/ UnmapNotify \/ StartDrag
    \/ DragMotion \/ DragMapRequest \/ DragConfigureRequest \/ DragExpose
    \/ DragRelease

SpecLoop == Init /\ [][NextLoop]_vars

(* C39: while a mouse loop runs no client is unmanaged and the dragged     *)
(* client is managed, and the loop is left by the step that handles a      *)
(* button release and by no other.                                         *)
C39_DragLoop ==
    [][/\ pc = "drag" => Managed \subseteq Managed'
       /\ pc' = "drag" => drag'.c \in Managed'
       /\ (pc = "drag" /\ pc' # "drag") => hist'.op = "release"
       /\ (pc = "drag" /\ hist'.op = "release") => pc' = "run"]_vars

(* C39 is exercised by a loop that is left on a button release with its    *)
(* client still managed, in a run where run() has unmanaged the client of  *)
(* the first window.                                                       *)
C39_Witness ==
    /\ hist.op = "release"
    /\ pc = "run"
    /\ hist.arg \in Managed
    /\ 1 \notin Managed

====
